---- MODULE Spec2Model ----
(***************************************************************************)
(* Preflight review-state core: the JSON snapshot store                    *)
(* (preflight-core/src/json_store.rs), the HTTP handlers that drive it     *)
(* (preflight-server/src/routes/*.rs) and the events they publish, the     *)
(* agent presence tracker (preflight-server/src/state.rs) and the          *)
(* WebSocket writers that forward the events (preflight-server/src/ws.rs). *)
(*                                                                         *)
(* A request is a process in one of NumSlots slots; it advances from one   *)
(* await point of its handler to the next in one step.  A mutating store   *)
(* call holds the state lock from its first step (mutate memory, write     *)
(* path.tmp) to its second (rename path.tmp over path), so a crash can     *)
(* fall between the two.                                                   *)
(***************************************************************************)
EXTENDS Integers, Sequences, FiniteSets, TLC

VARIABLES
    state,          \* JsonFileStore.state: the in-memory State behind the Mutex
    lock,           \* holder of the state Mutex (0 = free)
    disk,           \* the file at JsonFileStore.path
    tmp,            \* the file at path.with_extension("tmp")
    agent_status,   \* AppState.agent_status: thread id -> AgentStatus
    req,            \* the request running in each slot: handler, position, locals
    next_review,    \* reviews created so far (Uuid::new_v4 is modelled as a fresh number)
    next_thread,    \* threads created so far
    next_revision,  \* revisions created so far
    faults,         \* I/O failures and process deaths so far
    agent_presence, \* AgentPresenceTracker.inner: review id -> PresenceState
    trace,          \* the tracker's calls, timer expiries and the events it sent, in order
    ws_tx,          \* the broadcast channel: number of values it has accepted (its tail)
    ws_rx,          \* the WebSocket writers (handle_socket) and their Receivers
    mcp_tx,         \* PreflightMcp.ws_tx, the MCP process's channel: its tail
    wait,           \* the wait_for_event call of the MCP process
    pure,           \* the last call of a pure function of preflight-core: arguments and result
    ws_client       \* the task connect_ws spawns: its position, its backoff, and the server's reach

vars == <<state, lock, disk, tmp, agent_status, req,
          next_review, next_thread, next_revision, faults,
          agent_presence, trace, ws_tx, ws_rx, mcp_tx, wait, pure, ws_client>>

(***************************************************************************)
(* Bounds                                                                  *)
(***************************************************************************)
MaxReviews == 2      \* reviews ever created
MaxThreads == 2      \* threads ever created
MaxRevisions == 3    \* revisions ever created
MaxComments == 2     \* comments per thread
NumSlots == 2        \* requests in flight at once
MaxFaults == 1       \* failed writes, failed renames and process deaths in one behaviour
MaxCalls == 4        \* calls of the presence tracker in one behaviour
LockCalls == 2       \* calls of the presence tracker next to the requests that take locks
MaxRecv == 2         \* events one wait_for_event call receives
NumWriters == 2      \* WebSocket connections at once
MaxOverrun == 2      \* events sent beyond the channel's capacity
MaxSent == 3         \* events the channel accepts where lag is left out
ShortWait == 2       \* longest wait_for_event timeout, in seconds, during which the call can lag
MaxText == 3         \* characters of a base text
MaxHunkLines == 2    \* lines of a hunk given to compute_interdiff
LineNoBits == 3      \* bits of a line number: the code's u32, scaled down
MaxBody == 3         \* lines after the first hunk header of a parsed block

Slots == 1..NumSlots
ReviewIds == 1..MaxReviews
ThreadIds == 1..MaxThreads
RevisionIds == 1..MaxRevisions

(***************************************************************************)
(* Diff model (preflight-core/src/diff.rs) and the diffs the working tree  *)
(* can show.  NoPath is Option::None of old_path / new_path.               *)
(***************************************************************************)
NoPath == "<none>"

DiffLine(kind, content) == [kind |-> kind, content |-> content]

Hunk(old_start, old_count, new_start, new_count, lines) ==
    [old_start |-> old_start, old_count |-> old_count,
     new_start |-> new_start, new_count |-> new_count, lines |-> lines]

FileDiff(old_path, new_path, status, hunks) ==
    [old_path |-> old_path, new_path |-> new_path, status |-> status, hunks |-> hunks]

\* "Binary files a/x and b/x differ": no ---/+++ line, so the parser leaves both
\* paths None and produces no hunk (parser.rs parse_file_block).
BinaryFile == FileDiff(NoPath, NoPath, "Binary", <<>>)

HunkXY == Hunk(1, 1, 1, 1, <<DiffLine("Removed", "x"), DiffLine("Added", "y")>>)
HunkXZ == Hunk(1, 1, 1, 1, <<DiffLine("Removed", "x"), DiffLine("Added", "z")>>)

\* The parsed diffs the working tree moves between.
Diffs ==
    << <<FileDiff("a.rs", "a.rs", "Modified", <<HunkXY>>)>>,
       <<FileDiff("a.rs", "a.rs", "Modified", <<HunkXZ>>)>>,
       <<BinaryFile>>,
       <<BinaryFile, BinaryFile>> >>

(***************************************************************************)
(* State and the files                                                     *)
(***************************************************************************)
EmptyFn == [x \in {} |-> x]

EmptyState == [reviews |-> EmptyFn, threads |-> EmptyFn, revisions |-> EmptyFn]

\* A file of the snapshot directory: absent, complete (holds a whole JSON
\* document) or truncated (a write that did not finish).
EmptyJson == [reviews |-> {}, threads |-> {}, revisions |-> {}]
NoFile == [exists |-> FALSE, complete |-> FALSE, json |-> EmptyJson]
Truncated == [exists |-> TRUE, complete |-> FALSE, json |-> EmptyJson]
CompleteFile(json) == [exists |-> TRUE, complete |-> TRUE, json |-> json]

\* A serialization that leaves the revisions out.
ToJsonWithoutRevisions(s) ==
    [reviews |-> {<<ToString(id), s.reviews[id]>> : id \in DOMAIN s.reviews},
     threads |-> {<<ToString(id), s.threads[id]>> : id \in DOMAIN s.threads},
     revisions |-> {}]

\* serde_json::to_string_pretty(state): each HashMap<Uuid, _> becomes a JSON
\* object, i.e. a set of (key string, value) members.
ToJson(s) ==
    [reviews |-> {<<ToString(id), s.reviews[id]>> : id \in DOMAIN s.reviews},
     threads |-> {<<ToString(id), s.threads[id]>> : id \in DOMAIN s.threads},
     revisions |-> {<<ToString(id), s.revisions[id]>> : id \in DOMAIN s.revisions}]

\* serde_json::from_str: the members of each object, keyed by the parsed Uuid.
FromObject(members, ids) ==
    [id \in {i \in ids : \E m \in members : m[1] = ToString(i)} |->
        (CHOOSE m \in members : m[1] = ToString(id))[2]]

FromJson(json) ==
    [reviews |-> FromObject(json.reviews, ReviewIds),
     threads |-> FromObject(json.threads, ThreadIds),
     revisions |-> FromObject(json.revisions, RevisionIds)]

\* JsonFileStore::new: missing file -> State::default().
LoadState(file) == IF file.exists THEN FromJson(file.json) ELSE EmptyState

(***************************************************************************)
(* Store operations on a State (the part of each method between taking the *)
(* lock and calling persist)                                               *)
(***************************************************************************)
ThreadsOf(s, review_id) ==
    {t \in DOMAIN s.threads : s.threads[t].review_id = review_id}

RevisionsOf(s, review_id) ==
    {r \in DOMAIN s.revisions : s.revisions[r].review_id = review_id}

Max(S) == CHOOSE x \in S : \A y \in S : y <= x

store_create_review(s, id) ==
    [s EXCEPT !.reviews = (id :> [id |-> id, status |-> "Open"]) @@ @]

store_update_review_status(s, id, status) ==
    [s EXCEPT !.reviews[id].status = status]

\* A delete that leaves the children of the deleted review behind.
RetainAll(table, review_id) == table

RetainOthers(table, review_id) ==
    [k \in {x \in DOMAIN table : table[x].review_id # review_id} |-> table[k]]

store_delete_review(s, id) ==
    [reviews |-> [k \in DOMAIN s.reviews \ {id} |-> s.reviews[k]],
     threads |-> RetainOthers(s.threads, id),
     revisions |-> RetainOthers(s.revisions, id)]

\* A purge that takes every review for a closed one.
closed_ids_any(s) == DOMAIN s.reviews

closed_ids(s) == {id \in DOMAIN s.reviews : s.reviews[id].status = "Closed"}

RECURSIVE DeleteAll(_, _)
DeleteAll(s, ids) ==
    IF ids = {} THEN s
    ELSE LET id == CHOOSE x \in ids : TRUE
         IN DeleteAll(store_delete_review(s, id), ids \ {id})

store_delete_closed_reviews(s) == DeleteAll(s, closed_ids(s))

\* input: the CreateThreadInput's line_start, line_end, origin and
\* initial_comment_author.
store_create_thread(s, id, review_id, input) ==
    [s EXCEPT !.threads =
        (id :> [id |-> id, review_id |-> review_id,
                line_start |-> input.line_start, line_end |-> input.line_end,
                origin |-> input.origin, status |-> "Open",
                comments |-> <<[author_type |-> input.author_type]>>]) @@ @]

store_update_thread_status(s, thread_id, status) ==
    [s EXCEPT !.threads[thread_id].status = status]

store_add_comment(s, thread_id, author_type) ==
    [s EXCEPT !.threads[thread_id].comments = Append(@, [author_type |-> author_type])]

\* A numbering that continues from the highest number of any review.
next_number_any_review(s, review_id) ==
    LET numbers == {s.revisions[r].revision_number : r \in DOMAIN s.revisions}
    IN (IF numbers = {} THEN 0 ELSE Max(numbers)) + 1

next_number(s, review_id) ==
    LET numbers == {s.revisions[r].revision_number : r \in RevisionsOf(s, review_id)}
    IN (IF numbers = {} THEN 0 ELSE Max(numbers)) + 1

\* A create_revision that puts the new revision in the place of the review's
\* earlier ones.
store_replace_revisions(s, id, review_id, trigger, message, files) ==
    [s EXCEPT !.revisions =
        (id :> [id |-> id, review_id |-> review_id,
                revision_number |-> next_number(s, review_id),
                trigger |-> trigger, message |-> message, files |-> files])
        @@ [r \in DOMAIN s.revisions \ RevisionsOf(s, review_id) |-> s.revisions[r]]]

store_create_revision(s, id, review_id, trigger, message, files) ==
    [s EXCEPT !.revisions =
        (id :> [id |-> id, review_id |-> review_id,
                revision_number |-> next_number(s, review_id),
                trigger |-> trigger, message |-> message, files |-> files]) @@ @]

\* get_revisions: the review's revisions, sort_by_key(revision_number).
RECURSIVE SortByNumber(_)
SortByNumber(revs) ==
    IF revs = {} THEN <<>>
    ELSE LET first == CHOOSE x \in revs :
                        \A y \in revs : x.revision_number <= y.revision_number
         IN <<first>> \o SortByNumber(revs \ {first})

get_revisions(s, review_id) ==
    SortByNumber({s.revisions[r] : r \in RevisionsOf(s, review_id)})

\* get_latest_revision: max_by_key(revision_number); <<>> when the review has none.
get_latest_revision(s, review_id) ==
    LET revs == get_revisions(s, review_id)
    IN IF revs = <<>> THEN <<>> ELSE <<revs[Len(revs)]>>

\* get_threads(review_id, None): the review's threads (in HashMap order; only
\* their number and their fields are used).
get_threads(s, review_id) == {s.threads[t] : t \in ThreadsOf(s, review_id)}

\* A count of open threads that includes the agent's explanations.
counted_open_any_origin(t) == t.status = "Open"

\* list_reviews' filter for open_thread_count.
counted_open(t) == t.status = "Open" /\ t.origin # "AgentExplanation"

\* Iterator::max_by_key(|r| r.revision_number): <<>> for None.
max_by_key(revs) ==
    IF revs = {} THEN <<>>
    ELSE <<CHOOSE r \in revs : \A other \in revs : other.revision_number <= r.revision_number>>

\* list_reviews: the ReviewSummary of every review.
list_reviews(s) ==
    [id \in DOMAIN s.reviews |->
        LET review_threads == {t \in {s.threads[x] : x \in DOMAIN s.threads} : t.review_id = id}
            latest == max_by_key({r \in {s.revisions[x] : x \in DOMAIN s.revisions} : r.review_id = id})
        IN [id |-> id,
            status |-> s.reviews[id].status,
            thread_count |-> Cardinality(review_threads),
            open_thread_count |-> Cardinality({t \in review_threads : counted_open(t)}),
            file_count |-> IF latest = <<>> THEN 0 ELSE Len(latest[1].files)]]

\* A read method that skips the look-up of the review.
contains_key_always(table, id) == TRUE

\* HashMap::contains_key
contains_key(table, id) == id \in DOMAIN table

ReadMethods == {"get_review", "get_threads", "get_revisions", "get_revision", "get_latest_revision"}

\* What each read method of the store returns for review_id (and, for
\* get_revision, revision_number): "Ok" or the StoreError.
Read(method, s, review_id, revision_number) ==
    CASE method = "get_review" ->
            IF review_id \in DOMAIN s.reviews THEN "Ok" ELSE "ReviewNotFound"
      [] method \in {"get_threads", "get_revisions"} ->
            IF contains_key(s.reviews, review_id) THEN "Ok" ELSE "ReviewNotFound"
      [] method = "get_revision" ->
            IF ~contains_key(s.reviews, review_id) THEN "ReviewNotFound"
            ELSE IF \E r \in RevisionsOf(s, review_id) :
                        s.revisions[r].revision_number = revision_number
                 THEN "Ok" ELSE "RevisionNotFound"
      [] method = "get_latest_revision" ->
            IF ~contains_key(s.reviews, review_id) THEN "ReviewNotFound"
            ELSE IF get_latest_revision(s, review_id) = <<>> THEN "RevisionNotFound" ELSE "Ok"

\* get_thread: threads.get(&thread_id).ok_or(ThreadNotFound)
get_thread(s, thread_id) ==
    IF thread_id \in DOMAIN s.threads THEN "Ok" ELSE "ThreadNotFound"

(***************************************************************************)
(* Errors (store.rs StoreError, error.rs ApiError)                         *)
(***************************************************************************)
\* impl From<StoreError> for ApiError
ApiErrorOf(store_error) ==
    CASE store_error = "ReviewNotFound" -> "NotFound"
      [] store_error = "ThreadNotFound" -> "NotFound"
      [] store_error = "PersistenceError" -> "Internal"
      [] OTHER -> "Internal"

\* impl IntoResponse for ApiError; a handler that returns Ok answers 2xx.
StatusCode(res) ==
    CASE res = "NotFound" -> 404
      [] res = "BadRequest" -> 400
      [] res = "Internal" -> 500
      [] OTHER -> 200

NoChangesMsg == "no changes detected since last revision"

(***************************************************************************)
(* Requests                                                                *)
(***************************************************************************)
Idle ==
    [kind |-> "idle", pc |-> "idle", phase |-> "call",
     rid |-> 0,             \* review id (path parameter, or the id create_review drew)
     tid |-> 0,             \* thread id
     rev_id |-> 0,          \* id of the revision this request inserts
     rev_no |-> 0,          \* revision_number of the revision the store returned
     cidx |-> 0,            \* position of the comment this request appended
     st |-> "Open",         \* requested status
     author |-> "Human",    \* author_type of the comment
     thread |-> [line_start |-> 1, line_end |-> 1, origin |-> "Comment", author_type |-> "Human"],
                            \* the CreateThreadRequest
     agent |-> "Seen",      \* requested AgentStatus
     trigger |-> "Manual",
     message |-> <<>>,      \* CreateRevisionRequest.message: <<>> for None
     git |-> 0,             \* what `git diff` gave this request
     files |-> <<>>,        \* diff_against_base's result
     revision |-> <<>>,     \* RevisionQuery.revision: <<>> for None, <<n>> for Some(n)
     path |-> "",           \* file_path of GET /api/reviews/{id}/files/{path}
     body |-> <<>>,         \* the Json body of an Ok answer of the file handlers
     seen |-> 0,            \* revision_number of `latest` in the create_revision handler
     deleted |-> {},        \* delete_closed_reviews' result
     ev_review |-> 0,       \* thread.review_id read for the event
     res |-> "none",        \* the response: Ok or the ApiError
     msg |-> "",
     pub |-> <<>>,          \* events this request has sent to ws_tx, in order
     in_mem |-> {},         \* store calls whose effect was in memory when they returned
     on_disk |-> {}]        \* store calls whose effect was in the snapshot file when they returned

Event(event_type, review_id) == [event_type |-> event_type, review_id |-> review_id]

\* set_agent_status's event with its payload {thread_id, agent_status}.
Acknowledged(review_id, thread_id, status) ==
    [event_type |-> "ThreadAcknowledged", review_id |-> review_id,
     thread_id |-> thread_id, agent_status |-> status]

Respond(r, res, msg) ==
    [r EXCEPT !.pc = "done", !.phase = "call", !.res = res, !.msg = msg]

\* What each mutating store method checks before it mutates.
Precondition(op, r, s) ==
    CASE op \in {"create_revision", "update_review_status", "delete_review", "create_thread"} ->
            IF r.rid \in DOMAIN s.reviews THEN "Ok" ELSE "ReviewNotFound"
      [] op \in {"update_thread_status", "add_comment"} ->
            IF r.tid \in DOMAIN s.threads THEN "Ok" ELSE "ThreadNotFound"
      [] OTHER -> "Ok"

\* The in-memory mutation of each store method.
Mutate(op, r, s) ==
    CASE op = "create_review" -> store_create_review(s, r.rid)
      [] op = "create_revision" -> store_create_revision(s, r.rev_id, r.rid, r.trigger, r.message, r.files)
      [] op = "update_review_status" -> store_update_review_status(s, r.rid, r.st)
      [] op = "delete_review" -> store_delete_review(s, r.rid)
      [] op = "delete_closed_reviews" -> store_delete_closed_reviews(s)
      [] op = "create_thread" -> store_create_thread(s, r.tid, r.rid, r.thread)
      [] op = "update_thread_status" -> store_update_thread_status(s, r.tid, r.st)
      [] op = "add_comment" -> store_add_comment(s, r.tid, r.author)

\* The value the store method returns, recorded in the handler's locals.
Returned(op, r, s, s2) ==
    CASE op = "create_revision" ->
            [r EXCEPT !.rev_no = s2.revisions[r.rev_id].revision_number]
      [] op = "delete_closed_reviews" -> [r EXCEPT !.deleted = closed_ids(s)]
      [] op = "add_comment" -> [r EXCEPT !.cidx = Len(s2.threads[r.tid].comments)]
      [] OTHER -> r

\* Is the effect of request r's store call `op` present in State s?
Effect(op, r, s) ==
    CASE op = "create_review" -> r.rid \in DOMAIN s.reviews
      [] op = "create_revision" ->
            /\ r.rev_id \in DOMAIN s.revisions
            /\ s.revisions[r.rev_id].review_id = r.rid
            /\ s.revisions[r.rev_id].files = r.files
      [] op = "update_review_status" ->
            r.rid \in DOMAIN s.reviews /\ s.reviews[r.rid].status = r.st
      [] op = "delete_review" ->
            r.rid \notin DOMAIN s.reviews /\ ThreadsOf(s, r.rid) = {} /\ RevisionsOf(s, r.rid) = {}
      [] op = "delete_closed_reviews" ->
            \A id \in r.deleted :
                id \notin DOMAIN s.reviews /\ ThreadsOf(s, id) = {} /\ RevisionsOf(s, id) = {}
      [] op = "create_thread" ->
            r.tid \in DOMAIN s.threads /\ s.threads[r.tid].review_id = r.rid
      [] op = "update_thread_status" ->
            r.tid \in DOMAIN s.threads /\ s.threads[r.tid].status = r.st
      [] op = "add_comment" ->
            /\ r.tid \in DOMAIN s.threads
            /\ Len(s.threads[r.tid].comments) >= r.cidx
            /\ s.threads[r.tid].comments[r.cidx].author_type = r.author

Observed(r, op, s, file) ==
    [r EXCEPT !.in_mem = IF Effect(op, r, s) THEN @ \cup {op} ELSE @,
              !.on_disk = IF file.exists /\ file.complete /\ Effect(op, r, LoadState(file))
                          THEN @ \cup {op} ELSE @]

\* Where the handler goes when the store method returned Ok.
AfterOk(r, op) ==
    CASE op = "create_review" -> [r EXCEPT !.pc = "create_revision", !.phase = "call"]
      [] op = "create_revision" /\ r.kind = "CreateReview" ->
            [r EXCEPT !.pc = "get_threads", !.phase = "call"]
      [] op = "create_revision" /\ r.kind = "CreateRevision" -> Respond(r, "Ok", "")
      [] op = "add_comment" -> [r EXCEPT !.pc = "clear_agent_status", !.phase = "call"]
      [] op = "update_thread_status" -> [r EXCEPT !.pc = "get_thread", !.phase = "call"]
      [] OTHER -> [r EXCEPT !.pc = "publish", !.phase = "call"]

\* A handler that ignores the store's error and goes on to publish.
AfterErrIgnored(r, store_error) == [r EXCEPT !.pc = "publish", !.phase = "call"]

\* Where it goes when the store method returned Err: every call site is `.await?`.
AfterErr(r, store_error) == Respond(r, ApiErrorOf(store_error), "")

MutatingCalls ==
    {"create_review", "create_revision", "update_review_status", "delete_review",
     "delete_closed_reviews", "create_thread", "update_thread_status", "add_comment"}

(***************************************************************************)
(* The no-change test of the create_revision handler (routes/revisions.rs) *)
(***************************************************************************)
EffectivePath(f) ==
    IF f.new_path # NoPath THEN f.new_path
    ELSE IF f.old_path # NoPath THEN f.old_path ELSE ""

PathSet(files) == {EffectivePath(files[i]) : i \in 1..Len(files)}

\* files.iter().flat_map(|f| &f.hunks)
RECURSIVE FlatHunks(_)
FlatHunks(files) ==
    IF files = <<>> THEN <<>> ELSE Head(files).hunks \o FlatHunks(Tail(files))

same_hunk(a, b) ==
    /\ a.old_start = b.old_start
    /\ a.new_start = b.new_start
    /\ a.old_count = b.old_count
    /\ a.new_count = b.new_count
    /\ Len(a.lines) = Len(b.lines)
    /\ \A i \in 1..Len(a.lines) :
          a.lines[i].content = b.lines[i].content /\ a.lines[i].kind = b.lines[i].kind

\* A test that does not compare the number of files.
no_changes_by_paths(latest_files, files) ==
    /\ PathSet(latest_files) = PathSet(files)
    /\ LET old_hunks == FlatHunks(latest_files)
           new_hunks == FlatHunks(files)
       IN /\ Len(old_hunks) = Len(new_hunks)
          /\ \A i \in 1..Len(old_hunks) : same_hunk(old_hunks[i], new_hunks[i])

no_changes(latest_files, files) ==
    /\ PathSet(latest_files) = PathSet(files)
    /\ Len(latest_files) = Len(files)
    /\ LET old_hunks == FlatHunks(latest_files)
           new_hunks == FlatHunks(files)
       IN /\ Len(old_hunks) = Len(new_hunks)
          /\ \A i \in 1..Len(old_hunks) : same_hunk(old_hunks[i], new_hunks[i])

\* What `git diff` gives diff_against_base: GitError when it cannot be run or
\* fails, an index into Diffs when its output parses to that diff, ParseFails
\* when parse_diff rejects its output.
GitError == 0
GitResults == 0..Len(Diffs)
ParseFails == Len(Diffs) + 1

\* diff_against_base: is the result Err, and the Vec<FileDiff> of an Ok.  A
\* ParseError becomes the empty Vec: parse_diff(&diff_text).unwrap_or_default().
diff_failed(git) == git = GitError
diff_files(git) == IF git = ParseFails THEN <<>> ELSE Diffs[git]

(***************************************************************************)
(* The event bus: tokio::sync::broadcast::channel(64), created in app()    *)
(* (lib.rs).  A value sent is numbered by its position; the channel keeps  *)
(* the last Capacity values.  A Receiver is a position in that numbering.  *)
(***************************************************************************)
Capacity == 64

Writers == 1..NumWriters

\* A slot with no WebSocket connection yet.
NoWriter == [pc |-> "none", open |-> FALSE, next |-> 0, since |-> 0, last |-> 0, lagged |-> 0]

\* handle_socket has returned; its Receiver is dropped.
Ended == [NoWriter EXCEPT !.pc = "ended"]

\* Sender::receiver_count(): the Receivers alive, one per running handle_socket.
rx_cnt(rx) == Cardinality({w \in Writers : rx[w].pc = "recv"})

\* Sender::send's result: Err(SendError) when there is no Receiver.
SendResult(n_rx) == IF n_rx = 0 THEN "Err" ELSE "Ok"

\* A channel that keeps what it is sent when nobody listens.
AcceptedAlways(tail, k, n_rx) == tail + k

\* The channel's tail after k sends: with no Receiver the value is handed back
\* in the SendError and nothing is stored.
Accepted(tail, k, n_rx) == IF n_rx = 0 THEN tail ELSE tail + k

\* A subscription that starts at the oldest value the channel still holds.
SubscribedAtOldest(tail) == IF tail > Capacity THEN tail - Capacity ELSE 0

\* Sender::subscribe(): the new Receiver starts at the tail.
Subscribed(tail) == tail

\* A channel that overwrites a value one send early.
MissedEarly(next, tail) == IF tail - next >= Capacity THEN tail - Capacity - next + 1 ELSE 0

\* Receiver::recv: how many values at the Receiver's position were overwritten.
Missed(next, tail) == IF tail - next > Capacity THEN tail - Capacity - next ELSE 0

\* A writer that gives up when it is told it lagged.
AfterLaggedBreak(writer, n) == Ended

\* handle_socket on Err(RecvError::Lagged(n)): log and loop; recv has moved the
\* Receiver to the oldest value still held.
AfterLagged(writer, n) == [writer EXCEPT !.next = @ + n, !.lagged = n]

\* handle_socket on Ok(event): socket.send; `break` when the send fails, which
\* returns from handle_socket and drops the Receiver.
AfterEvent(writer) ==
    IF writer.open
    THEN [writer EXCEPT !.next = @ + 1, !.last = writer.next + 1]
    ELSE Ended

(***************************************************************************)
(* The presence tracker (state.rs)                                         *)
(***************************************************************************)
\* map.get(&review_id) == None
NoPresence == [known |-> FALSE, connected |-> FALSE, handle |-> "none"]

\* A register that leaves the pending disconnect task running.
register_keeps_timer(entry) == [entry EXCEPT !.known = TRUE, !.connected = TRUE]

\* register: or_insert, disconnect_handle.take() + abort, connected = true.
register(entry) == [known |-> TRUE, connected |-> TRUE, handle |-> "none"]

\* A register that announces every call.
announces_always(was_connected) == TRUE

\* register: `if !was_connected { ws_tx.send(..) }`
announces(was_connected) == ~was_connected

\* deregister: only for an entry in the map; the old task is aborted and a new
\* one spawned, connected is left as it is.
deregister(entry) == IF entry.known THEN [entry EXCEPT !.handle = "sleeping"] ELSE entry

\* A disconnect task that ends without flipping the entry.
expire_keeps_connected(entry) == [entry EXCEPT !.handle = "finished"]

\* The spawned task after its sleep: `if let Some(entry) && entry.connected`
\* flips the entry; the JoinHandle stays in the map, finished.
expire(entry) == [entry EXCEPT !.connected = FALSE, !.handle = "finished"]

TraceEntry(op, id, connected) == [op |-> op, id |-> id, connected |-> connected]

\* Calls of register and deregister so far.
Calls == Cardinality({i \in DOMAIN trace : trace[i].op \in {"register", "deregister"}})

(***************************************************************************)
(* Texts and interdiff (preflight-core/src/interdiff.rs).  A text is a     *)
(* sequence of characters; NL is '\n'.                                     *)
(***************************************************************************)
NL == "\n"

NoCall == [fn |-> "none"]

\* Position of the first NL of text, 0 when it has none.
find_nl(text) ==
    IF \E i \in DOMAIN text : text[i] = NL
    THEN CHOOSE i \in DOMAIN text : text[i] = NL /\ \A j \in 1..(i - 1) : text[j] # NL
    ELSE 0

\* str::str_lines(): the lines without their terminators; the last line needs none.
RECURSIVE str_lines(_)
str_lines(text) ==
    IF text = <<>> THEN <<>>
    ELSE LET k == find_nl(text)
         IN IF k = 0 THEN <<text>>
            ELSE <<SubSeq(text, 1, k - 1)>> \o str_lines(SubSeq(text, k + 1, Len(text)))

\* TextDiff::from_lines' tokens: the lines with their terminators.
RECURSIVE split_inclusive(_)
split_inclusive(text) ==
    IF text = <<>> THEN <<>>
    ELSE LET k == find_nl(text)
         IN IF k = 0 THEN <<text>>
            ELSE <<SubSeq(text, 1, k)>> \o split_inclusive(SubSeq(text, k + 1, Len(text)))

\* trim_end_matches('\n')
RECURSIVE trim_end_nl(_)
trim_end_nl(text) ==
    IF text # <<>> /\ text[Len(text)] = NL
    THEN trim_end_nl(SubSeq(text, 1, Len(text) - 1)) ELSE text

\* base_lines[from..to) (0-indexed), each followed by '\n'.
RECURSIVE pushed_lines(_, _, _)
pushed_lines(base_lines, from, to) ==
    IF from >= to THEN <<>>
    ELSE base_lines[from + 1] \o <<NL>> \o pushed_lines(base_lines, from + 1, to)

\* The new side of a hunk: every line that is not Removed, followed by '\n'.
RECURSIVE new_side(_)
new_side(hunk_lines) ==
    IF hunk_lines = <<>> THEN <<>>
    ELSE (IF Head(hunk_lines).kind = "Removed" THEN <<>>
          ELSE Head(hunk_lines).content \o <<NL>>) \o new_side(Tail(hunk_lines))

\* The `for hunk in hunks` loop of reconstruct_from_hunks and the copy of
\* the remaining base lines after it.
RECURSIVE apply_hunks(_, _, _, _)
apply_hunks(base_lines, hunks, base_idx, result) ==
    IF hunks = <<>>
    THEN result \o pushed_lines(base_lines, base_idx, Len(base_lines))
    ELSE LET hunk == Head(hunks)
             hunk_start == IF hunk.old_start > 0 THEN hunk.old_start - 1 ELSE 0
             stop == IF hunk_start < Len(base_lines) THEN hunk_start ELSE Len(base_lines)
         IN apply_hunks(base_lines, Tail(hunks), hunk_start + hunk.old_count,
                        result \o pushed_lines(base_lines, base_idx, stop)
                               \o new_side(hunk.lines))

reconstruct_from_hunks(base_content, hunks) ==
    apply_hunks(str_lines(base_content), hunks, 0, <<>>)

\* The length of the longest common prefix of two sequences.
RECURSIVE common_prefix(_, _)
common_prefix(a, b) ==
    IF a # <<>> /\ b # <<>> /\ Head(a) = Head(b)
    THEN 1 + common_prefix(Tail(a), Tail(b)) ELSE 0

Reversed(a) == [i \in DOMAIN a |-> a[Len(a) + 1 - i]]

DiffOp(tag, old_index, old_len, new_index, new_len) ==
    [tag |-> tag, old_index |-> old_index, old_len |-> old_len,
     new_index |-> new_index, new_len |-> new_len]

\* TextDiff::from_lines(old, new).ops() (crate `similar`): the common prefix
\* and suffix are Equal, what lies between is deleted and inserted.  Ops of
\* length 0 are not emitted.
diff_ops(old, new) ==
    LET pre == common_prefix(old, new)
        suf == common_prefix(Reversed(SubSeq(old, pre + 1, Len(old))),
                             Reversed(SubSeq(new, pre + 1, Len(new))))
        del == Len(old) - pre - suf
        ins == Len(new) - pre - suf
    IN (IF pre > 0 THEN <<DiffOp("Equal", 0, pre, 0, pre)>> ELSE <<>>)
       \o (IF del > 0 THEN <<DiffOp("Delete", pre, del, pre, 0)>> ELSE <<>>)
       \o (IF ins > 0 THEN <<DiffOp("Insert", pre + del, 0, pre, ins)>> ELSE <<>>)
       \o (IF suf > 0 THEN <<DiffOp("Equal", pre + del, suf, pre + ins, suf)>> ELSE <<>>)

\* similar::group_diff_ops(ops, n): the leading and the trailing Equal are cut
\* to n lines; a group that is empty or a single Equal is dropped.  (No Equal
\* lies between two changes in diff_ops, so no group is split.)
grouped_ops(ops, n) ==
    LET cut_first ==
            IF ops # <<>> /\ ops[1].tag = "Equal" /\ ops[1].old_len > n
            THEN [ops EXCEPT ![1] = DiffOp("Equal", @.old_index + (@.old_len - n), n,
                                           @.new_index + (@.new_len - n), n)]
            ELSE ops
        m == Len(cut_first)
        cut_last ==
            IF m > 0 /\ cut_first[m].tag = "Equal" /\ cut_first[m].old_len > n
            THEN [cut_first EXCEPT ![m] = DiffOp("Equal", @.old_index, n, @.new_index, n)]
            ELSE cut_first
    IN IF cut_last = <<>> \/ (m = 1 /\ cut_last[1].tag = "Equal") THEN <<>> ELSE <<cut_last>>

\* diff.iter_changes(op): one Change per line of the op; <<>> is None.
iter_changes(op, old, new) ==
    CASE op.tag = "Equal" ->
            [i \in 1..op.old_len |->
                [tag |-> "Equal", old_index |-> <<op.old_index + i - 1>>,
                 new_index |-> <<op.new_index + i - 1>>, value |-> old[op.old_index + i]]]
      [] op.tag = "Delete" ->
            [i \in 1..op.old_len |->
                [tag |-> "Delete", old_index |-> <<op.old_index + i - 1>>,
                 new_index |-> <<>>, value |-> old[op.old_index + i]]]
      [] op.tag = "Insert" ->
            [i \in 1..op.new_len |->
                [tag |-> "Insert", old_index |-> <<>>,
                 new_index |-> <<op.new_index + i - 1>>, value |-> new[op.new_index + i]]]

RECURSIVE changes_of(_, _, _)
changes_of(group, old, new) ==
    IF group = <<>> THEN <<>>
    ELSE iter_changes(Head(group), old, new) \o changes_of(Tail(group), old, new)

unwrap_or(option, default) == IF option = <<>> THEN default ELSE option[1]

NumberedLine(kind, content, old_line_no, new_line_no) ==
    [kind |-> kind, content |-> content,
     old_line_no |-> old_line_no, new_line_no |-> new_line_no]

\* The Hunk compute_interdiff builds from the changes of one group.
interdiff_hunk(changes) ==
    LET old_start == unwrap_or(changes[1].old_index, 0) + 1
        new_start == unwrap_or(changes[1].new_index, 0) + 1
        old_count(k) == Cardinality({j \in 1..k : changes[j].tag \in {"Equal", "Delete"}})
        new_count(k) == Cardinality({j \in 1..k : changes[j].tag \in {"Equal", "Insert"}})
        line(k) ==
            LET content == trim_end_nl(changes[k].value)
            IN CASE changes[k].tag = "Equal" ->
                        NumberedLine("Context", content, <<old_start + old_count(k) - 1>>,
                                     <<new_start + new_count(k) - 1>>)
                 [] changes[k].tag = "Delete" ->
                        NumberedLine("Removed", content, <<old_start + old_count(k) - 1>>, <<>>)
                 [] changes[k].tag = "Insert" ->
                        NumberedLine("Added", content, <<>>, <<new_start + new_count(k) - 1>>)
    IN Hunk(old_start, old_count(Len(changes)), new_start, new_count(Len(changes)),
            [k \in DOMAIN changes |-> line(k)])

\* The hunks of the groups of the diff between two texts.
hunks_between(from_content, to_content) ==
    LET old == split_inclusive(from_content)
        new == split_inclusive(to_content)
        groups == grouped_ops(diff_ops(old, new), 3)
        all == [g \in DOMAIN groups |-> changes_of(groups[g], old, new)]
    IN [g \in DOMAIN SelectSeq(all, LAMBDA c : c # <<>>) |->
            interdiff_hunk(SelectSeq(all, LAMBDA c : c # <<>>)[g])]

\* An interdiff that compares the base with the `to` version.
compute_interdiff_from_base(base_content, from_hunks, to_hunks) ==
    hunks_between(base_content, reconstruct_from_hunks(base_content, to_hunks))

compute_interdiff(base_content, from_hunks, to_hunks) ==
    hunks_between(reconstruct_from_hunks(base_content, from_hunks),
                  reconstruct_from_hunks(base_content, to_hunks))

\* Sequences over S of length at most n.
SeqsUpTo(S, n) == UNION {[1..k -> S] : k \in 0..n}

\* The base texts, and the hunks and hunk lists given to compute_interdiff.
\* reconstruct_from_hunks reads old_start, old_count and the lines of a hunk.
Texts == SeqsUpTo({"a", "b", NL}, MaxText)

HunkLines == {NumberedLine(kind, content, <<>>, <<>>) :
                kind \in {"Context", "Added", "Removed"}, content \in {<<"a">>, <<"b">>}}

HunksOf(Starts, Counts, Ls) ==
    {Hunk(old_start, old_count, old_start, old_count, ls) :
        old_start \in Starts, old_count \in Counts, ls \in Ls}

HunkLists ==
    {<<>>}
    \cup {<<h>> : h \in HunksOf(0..2, 0..2, SeqsUpTo(HunkLines, MaxHunkLines))}
    \cup {<<h1, h2>> : h1, h2 \in HunksOf(1..2, 0..1, [1..1 -> HunkLines])}

\* Nothing but `pure` changes.
OnlyPure ==
    UNCHANGED <<state, lock, disk, tmp, faults, agent_status, req,
                next_review, next_thread, next_revision,
                agent_presence, trace, ws_tx, ws_rx, mcp_tx, wait, ws_client>>

\* One call in a behaviour: a call depends on nothing but its arguments.
CallComputeInterdiff(base_content, from_hunks, to_hunks) ==
    /\ pure = NoCall
    /\ pure' = [fn |-> "compute_interdiff", base_content |-> base_content,
                from_hunks |-> from_hunks, to_hunks |-> to_hunks,
                result |-> compute_interdiff(base_content, from_hunks, to_hunks)]
    /\ OnlyPure

(***************************************************************************)
(* The unified diff parser (preflight-core/src/parser.rs), on lines that   *)
(* are sequences of characters                                             *)
(***************************************************************************)
starts_with(text, prefix) ==
    Len(text) >= Len(prefix) /\ SubSeq(text, 1, Len(prefix)) = prefix

\* str::find: the position (from 0) of the first occurrence, <<>> for None.
find(text, pattern) ==
    LET hits == {i \in 0..(Len(text) - Len(pattern)) :
                    SubSeq(text, i + 1, i + Len(pattern)) = pattern}
    IN IF hits = {} THEN <<>> ELSE <<CHOOSE i \in hits : \A j \in hits : i <= j>>

\* str::split(c)
RECURSIVE split(_, _)
split(text, c) ==
    LET at == find(text, <<c>>)
    IN IF at = <<>> THEN <<text>>
       ELSE <<SubSeq(text, 1, at[1])>> \o split(SubSeq(text, at[1] + 2, Len(text)), c)

Digits == <<"0", "1", "2", "3", "4", "5", "6", "7", "8", "9">>

DigitValue(c) == (CHOOSE i \in DOMAIN Digits : Digits[i] = c) - 1

\* The values of the line number type.
U32 == 0..(2^LineNoBits - 1)

\* str::parse::<u32>(): <<>> for Err (empty, a character that is no digit,
\* or a value out of range).
RECURSIVE parse_digits(_, _)
parse_digits(text, acc) ==
    IF text = <<>> THEN <<acc>>
    ELSE IF \A i \in DOMAIN Digits : Digits[i] # Head(text) THEN <<>>
    ELSE LET v == acc * 10 + DigitValue(Head(text))
         IN IF v \notin U32 THEN <<>> ELSE parse_digits(Tail(text), v)

parse_u32(text) == IF text = <<>> THEN <<>> ELSE parse_digits(text, 0)

\* parse_range: <<start, count>>, or <<>> for Err(ParseError).
parse_range(spec, prefix) ==
    IF ~starts_with(spec, <<prefix>>) THEN <<>>
    ELSE LET stripped == Tail(spec)
             comma == find(stripped, <<",">>)
         IN IF comma # <<>>
            THEN LET start == parse_u32(SubSeq(stripped, 1, comma[1]))
                     count == parse_u32(SubSeq(stripped, comma[1] + 2, Len(stripped)))
                 IN IF start = <<>> \/ count = <<>> THEN <<>> ELSE <<start[1], count[1]>>
            ELSE LET start == parse_u32(stripped)
                 IN IF start = <<>> THEN <<>> ELSE <<start[1], 1>>

HeaderStart == <<"@", "@", " ">>
HeaderClose == <<" ", "@", "@">>

\* parse_hunk_header: <<old_start, old_count, new_start, new_count>>, or <<>>
\* for Err(ParseError).  The text after the closing @@ is not kept here.
parse_hunk_header(header) ==
    IF ~starts_with(header, HeaderStart) THEN <<>>
    ELSE LET after_at == SubSeq(header, 4, Len(header))
             closing_pos == find(after_at, HeaderClose)
         IN IF closing_pos = <<>> THEN <<>>
            ELSE LET parts == split(SubSeq(after_at, 1, closing_pos[1]), " ")
                 IN IF Len(parts) # 2 THEN <<>>
                    ELSE LET old == parse_range(parts[1], "-")
                             new == parse_range(parts[2], "+")
                         IN IF old = <<>> \/ new = <<>> THEN <<>> ELSE old \o new

\* `n += 1` on a line number: the sum, and whether it overflowed.
add_one(n) == [value |-> (n + 1) % 2^LineNoBits, overflow |-> n + 1 \notin U32]

\* The line number after `n += 1`.
next_line(n) == add_one(n).value

\* The `while i < block.len()` loop of parse_hunk from line i (from 0) on:
\* the lines pushed, the i it ends with, and whether a `+= 1` overflowed.
RECURSIVE hunk_lines(_, _, _, _, _, _)
hunk_lines(block, i, old_line, new_line, diff_lines, overflow) ==
    IF i >= Len(block) THEN [lines |-> diff_lines, i |-> i, overflow |-> overflow]
    ELSE LET line == block[i + 1]
             both == add_one(old_line).overflow \/ add_one(new_line).overflow
         IN IF starts_with(line, HeaderStart)
            THEN [lines |-> diff_lines, i |-> i, overflow |-> overflow]
            ELSE IF starts_with(line, <<"\\">>)
            THEN hunk_lines(block, i + 1, old_line, new_line, diff_lines, overflow)
            ELSE IF line = <<>>
            THEN hunk_lines(block, i + 1, next_line(old_line), next_line(new_line),
                            Append(diff_lines,
                                   NumberedLine("Context", <<>>, <<old_line>>, <<new_line>>)),
                            overflow \/ both)
            ELSE IF Head(line) = " "
            THEN hunk_lines(block, i + 1, next_line(old_line), next_line(new_line),
                            Append(diff_lines,
                                   NumberedLine("Context", Tail(line), <<old_line>>, <<new_line>>)),
                            overflow \/ both)
            ELSE IF Head(line) = "+"
            THEN hunk_lines(block, i + 1, old_line, next_line(new_line),
                            Append(diff_lines,
                                   NumberedLine("Added", Tail(line), <<>>, <<new_line>>)),
                            overflow \/ add_one(new_line).overflow)
            ELSE IF Head(line) = "-"
            THEN hunk_lines(block, i + 1, next_line(old_line), new_line,
                            Append(diff_lines,
                                   NumberedLine("Removed", Tail(line), <<old_line>>, <<>>)),
                            overflow \/ add_one(old_line).overflow)
            ELSE [lines |-> diff_lines, i |-> i, overflow |-> overflow]

\* parse_hunk(block, start): res is "Ok", "ParseError", or "panic" when a
\* `+= 1` overflowed in a build with overflow checks (`checks`); without
\* them the number wraps.
parse_hunk(block, start, checks) ==
    LET header == parse_hunk_header(block[start + 1])
        body == hunk_lines(block, start + 1, header[1], header[3], <<>>, FALSE)
    IN IF header = <<>> THEN [res |-> "ParseError", hunk |-> <<>>, next |-> start]
       ELSE IF body.overflow /\ checks THEN [res |-> "panic", hunk |-> <<>>, next |-> start]
       ELSE [res |-> "Ok",
             hunk |-> <<Hunk(header[1], header[2], header[3], header[4], body.lines)>>,
             next |-> body.i]

\* The `// Parse hunks` loop of parse_file_block from line i on: the hunks,
\* or the ParseError or the panic of the first parse_hunk that does not return one.
RECURSIVE parse_hunks(_, _, _, _)
parse_hunks(block, i, hunks, checks) ==
    IF i >= Len(block) THEN [res |-> "Ok", hunks |-> hunks]
    ELSE IF starts_with(block[i + 1], HeaderStart)
    THEN LET parsed == parse_hunk(block, i, checks)
         IN IF parsed.res # "Ok" THEN [res |-> parsed.res, hunks |-> <<>>]
            ELSE parse_hunks(block, parsed.next, hunks \o parsed.hunk, checks)
    ELSE parse_hunks(block, i + 1, hunks, checks)

\* How git writes a number and a hunk header.
RECURSIVE to_decimal(_)
to_decimal(n) ==
    IF n < 10 THEN <<Digits[n + 1]>> ELSE to_decimal(n \div 10) \o <<Digits[(n % 10) + 1]>>

range_text(start, count) ==
    to_decimal(start) \o (IF count = 1 THEN <<>> ELSE <<",">> \o to_decimal(count))

header_text(old_start, old_count, new_start, new_count) ==
    HeaderStart \o <<"-">> \o range_text(old_start, old_count)
                \o <<" ", "+">> \o range_text(new_start, new_count) \o HeaderClose

\* The lines a block may hold after its first hunk header, and the headers.
BodyLines ==
    {<<" ", "a">>, <<"+", "a">>, <<"-", "a">>, <<>>, <<"\\", " ">>, <<"i">>,
     header_text(1, 1, 1, 1)}

Starts == {0, 1, 2^LineNoBits - 2, 2^LineNoBits - 1}

Headers ==
    {header_text(old_start, count, new_start, count) :
        old_start \in Starts, new_start \in Starts, count \in {1, 2}}
    \cup {HeaderStart \o <<"-", "1">> \o HeaderClose,
          HeaderStart \o <<"-", "1", " ", "+">> \o to_decimal(2^LineNoBits) \o HeaderClose}

CallParseHunks(block, checks) ==
    /\ pure = NoCall
    /\ pure' = [fn |-> "parse_hunks", block |-> block, checks |-> checks,
                result |-> parse_hunks(block, 0, <<>>, checks)]
    /\ OnlyPure

(***************************************************************************)
(* The MCP process (preflight-mcp): its own broadcast::channel(64), fed by  *)
(* the task connect_ws spawns, and the wait_for_event tool.  Time is        *)
(* counted in seconds while a call waits.                                   *)
(***************************************************************************)
DefaultTimeout == 300
InitialBackoff == 1    \* seconds
max_backoff == 30      \* seconds
TimeoutCap == 600

\* A wait that takes the caller's timeout as it comes.
timeout_uncapped(timeout_secs) ==
    IF timeout_secs = <<>> THEN DefaultTimeout ELSE timeout_secs[1]

\* input.timeout_secs.unwrap_or(300).min(600); <<>> is None.
timeout_of(timeout_secs) ==
    LET asked == IF timeout_secs = <<>> THEN DefaultTimeout ELSE timeout_secs[1]
    IN IF asked < TimeoutCap THEN asked ELSE TimeoutCap

\* The call: where it is, its Duration, the seconds since it started, the
\* channel's tail when it subscribed, its Receiver's position, the last
\* Lagged(n), whether it passed over an event, and its reply.
NoWait ==
    [pc |-> "idle", timeout_secs |-> <<>>, timeout |-> 0, elapsed |-> 0,
     since |-> 0, next |-> 0, lagged |-> 0, skipped |-> 0, res |-> "none", reply |-> "none"]

\* The call returns.
Replied(w, res, reply) == [w EXCEPT !.pc = "done", !.res = res, !.reply = reply]

(***************************************************************************)
(* Initial state: JsonFileStore::new on a path that holds no file yet      *)
(***************************************************************************)
Init ==
    /\ state = EmptyState
    /\ lock = 0
    /\ disk = NoFile
    /\ tmp = NoFile
    /\ agent_status = EmptyFn
    /\ req = [h \in Slots |-> Idle]
    /\ next_review = 0
    /\ next_thread = 0
    /\ next_revision = 0
    /\ faults = 0
    /\ agent_presence = [id \in ReviewIds |-> NoPresence]
    /\ trace = <<>>
    /\ ws_tx = 0
    /\ ws_rx = [w \in Writers |-> NoWriter]
    /\ mcp_tx = 0
    /\ wait = NoWait
    /\ pure = NoCall
    /\ ws_client = [pc |-> "connecting", backoff |-> InitialBackoff, elapsed |-> 0, up |-> TRUE]

\* An I/O call fails, or the process dies, only while the fault budget lasts.
Faulty(ok) == faults' = (IF ok THEN faults ELSE faults + 1) /\ (ok \/ faults < MaxFaults)

Unchanged_ids == UNCHANGED <<next_review, next_thread, next_revision>>

\* A handler step sends nothing and does not call the tracker.
\* Nothing of the MCP process changes.
McpIdle == UNCHANGED <<mcp_tx, wait, pure, ws_client>>

Silent == UNCHANGED <<agent_presence, trace, ws_tx, ws_rx>> /\ McpIdle

\* A step that reads the store or touches only the request's own record.
OnlyReq == UNCHANGED <<state, lock, disk, tmp, faults, agent_status>> /\ Unchanged_ids /\ Silent

(***************************************************************************)
(* Scheduling.  Clearing the agent status, the send to ws_tx and the       *)
(* return of the response touch nothing that another request of these      *)
(* specifications reads, so the model runs them before any other step:     *)
(* each interleaving left out is equivalent to one that is kept.           *)
(***************************************************************************)
InTail(r) == r.pc \in {"clear_agent_status", "publish", "done"}

\* Likewise, while a store method holds the lock between persist's write and
\* its rename, the only steps that matter are the rename and a crash.
NoTail == lock = 0 /\ \A k \in Slots : ~InTail(req[k])

\* A request takes the lowest free slot.
Free(h) == NoTail /\ req[h].pc = "idle" /\ \A k \in Slots : k < h => req[k].pc # "idle"

\* A request in flight that is at one of its await points.
At(h, pc) == NoTail /\ req[h].pc = pc /\ req[h].phase = "call"

(***************************************************************************)
(* A mutating store method (json_store.rs).  First step: take the lock,    *)
(* check, mutate memory, and persist's tokio::fs::write of path.tmp.       *)
(* Second step: persist's tokio::fs::rename, then the lock is dropped.     *)
(***************************************************************************)
\* delete_closed_reviews returns Ok(vec![]) before persist when nothing is Closed.
SkipsPersist(op, s) == op = "delete_closed_reviews" /\ closed_ids(s) = {}

\* A store method that undoes its mutation when persist fails.
RolledBack(old, new) == old

\* Memory after the store method's persist failed.
AfterPersistFailure(old, new) == new

\* What path.tmp holds after tokio::fs::write: the document, or a torn file.
WrittenFile(s, write_ok) == IF write_ok THEN CompleteFile(ToJson(s)) ELSE Truncated

\* A persist that writes the document straight to path.
PathOverwritten(path_file, written) == written

\* What path holds after persist's write: the write goes to path.tmp.
PathAfterWrite(path_file, written) == path_file

\* What path holds after tokio::fs::rename(tmp, path).
RenamedFile(path_file, tmp_file, rename_ok) == IF rename_ok THEN tmp_file ELSE path_file

\* The ids the method draws with Uuid::new_v4().
Drawn(op, r) ==
    CASE op = "create_review" -> [r EXCEPT !.rid = next_review + 1]
      [] op = "create_revision" -> [r EXCEPT !.rev_id = next_revision + 1]
      [] op = "create_thread" -> [r EXCEPT !.tid = next_thread + 1]
      [] OTHER -> r

\* Request r0 of slot h calls the store method r0.pc.
Call(h, r0, write_ok) ==
    LET op == r0.pc
        pre == Precondition(op, r0, state)
        r == IF pre = "Ok" THEN Drawn(op, r0) ELSE r0
        drew(what) == IF pre = "Ok" /\ op = what THEN 1 ELSE 0
        s2 == Mutate(op, r, state)
        r2 == Returned(op, r, state, s2)
    IN /\ lock = 0
       /\ next_review' = next_review + drew("create_review")
       /\ next_revision' = next_revision + drew("create_revision")
       /\ next_thread' = next_thread + drew("create_thread")
       /\ Faulty(write_ok)
       /\ IF pre # "Ok"
          THEN /\ write_ok
               /\ req' = [req EXCEPT ![h] = AfterErr(r, pre)]
               /\ UNCHANGED <<state, lock, disk, tmp>>
          ELSE IF SkipsPersist(op, state)
          THEN /\ write_ok
               /\ req' = [req EXCEPT ![h] = AfterOk(r2, op)]
               /\ UNCHANGED <<state, lock, disk, tmp>>
          ELSE IF write_ok
          THEN /\ state' = s2
               /\ tmp' = WrittenFile(s2, TRUE)
               /\ disk' = PathAfterWrite(disk, tmp')
               /\ lock' = h
               /\ req' = [req EXCEPT ![h] = [r2 EXCEPT !.phase = "rename"]]
          ELSE /\ state' = AfterPersistFailure(state, s2)
               /\ tmp' = WrittenFile(s2, FALSE)
               /\ disk' = PathAfterWrite(disk, tmp')
               /\ req' = [req EXCEPT ![h] =
                            AfterErr(Observed(r2, op, state', disk'), "PersistenceError")]
               /\ UNCHANGED lock
       /\ UNCHANGED agent_status /\ Silent

\* A request in flight reaches its next store call (create_review's handler
\* calling create_revision, create_revision's handler after its comparison).
StoreCall(h, write_ok) ==
    /\ At(h, req[h].pc)
    /\ req[h].pc \in MutatingCalls
    /\ Call(h, req[h], write_ok)

\* The MutexGuard `state` of a store method is dropped when the method returns,
\* on the Ok path and on the `?` of persist alike: the lock has no holder.
drop_kept_on_error(h, rename_ok) == IF rename_ok THEN 0 ELSE h

drop(h, rename_ok) == 0

StoreRename(h, rename_ok) ==
    LET r == req[h]
        op == r.pc
    IN /\ r.phase = "rename"
       /\ lock = h
       /\ lock' = drop(h, rename_ok)
       /\ Faulty(rename_ok)
       /\ disk' = RenamedFile(disk, tmp, rename_ok)
       /\ tmp' = IF rename_ok THEN NoFile ELSE tmp
       /\ req' = [req EXCEPT ![h] =
                    IF rename_ok
                    THEN AfterOk(Observed(r, op, state, disk'), op)
                    ELSE AfterErr(Observed(r, op, state, disk'), "PersistenceError")]
       /\ UNCHANGED <<state, agent_status>> /\ Unchanged_ids /\ Silent

(***************************************************************************)
(* A request arrives and runs to its first await.  A request that will     *)
(* draw an id is admitted only while the ids drawn so far and those booked *)
(* by requests in flight stay within the bounds.                           *)
(***************************************************************************)
ReviewsBooked == next_review

RevisionsBooked ==
    next_revision
    + Cardinality({k \in Slots :
          \/ req[k].pc \in {"create_review", "get_latest_revision"}
          \/ req[k].pc = "create_revision" /\ req[k].phase = "call"})

ThreadsBooked == next_thread

\* Comments a thread holds.
CommentsBooked(thread_id) ==
    IF thread_id \in DOMAIN state.threads
    THEN Len(state.threads[thread_id].comments) ELSE 1

New(kind, pc) == [Idle EXCEPT !.kind = kind, !.pc = pc]

\* POST /api/reviews: diff_against_base, then store.create_review.
StartCreateReview(h, git, write_ok) ==
    /\ Free(h)
    /\ ReviewsBooked < MaxReviews
    /\ RevisionsBooked < MaxRevisions
    /\ LET r == [New("CreateReview", "create_review") EXCEPT !.trigger = "Manual", !.git = git]
       IN IF ~diff_failed(git)
          THEN Call(h, [r EXCEPT !.files = diff_files(git)], write_ok)
          ELSE /\ write_ok
               /\ req' = [req EXCEPT ![h] = Respond(r, "BadRequest", "git")]
               /\ OnlyReq

\* PATCH /api/reviews/{id}/status
StartUpdateReviewStatus(h, id, status, write_ok) ==
    /\ Free(h)
    /\ Call(h, [New("UpdateReviewStatus", "update_review_status")
                    EXCEPT !.rid = id, !.st = status], write_ok)

\* DELETE /api/reviews/{id}
StartDeleteReview(h, id, write_ok) ==
    /\ Free(h)
    /\ Call(h, [New("DeleteReview", "delete_review") EXCEPT !.rid = id], write_ok)

\* DELETE /api/reviews
StartDeleteClosedReviews(h, write_ok) ==
    /\ Free(h)
    /\ Call(h, New("DeleteClosedReviews", "delete_closed_reviews"), write_ok)

\* The body of POST /api/reviews/{id}/threads.
CreateThreadRequest(author_type, line_start, line_end, origin) ==
    [line_start |-> line_start, line_end |-> line_end, origin |-> origin,
     author_type |-> author_type]

\* A comment on line 1 by author_type.
CommentOn1(author_type) == CreateThreadRequest(author_type, 1, 1, "Comment")

\* POST /api/reviews/{id}/threads
StartCreateThread(h, id, request, write_ok) ==
    /\ Free(h)
    /\ ThreadsBooked < MaxThreads
    /\ Call(h, [New("CreateThread", "create_thread")
                    EXCEPT !.rid = id, !.author = request.author_type,
                           !.thread = request], write_ok)

\* POST /api/threads/{id}/comments
StartAddComment(h, thread_id, author_type, write_ok) ==
    /\ Free(h)
    /\ CommentsBooked(thread_id) < MaxComments
    /\ Call(h, [New("AddComment", "add_comment")
                    EXCEPT !.tid = thread_id, !.author = author_type], write_ok)

\* PATCH /api/threads/{id}/status
StartUpdateThreadStatus(h, thread_id, status, write_ok) ==
    /\ Free(h)
    /\ Call(h, [New("UpdateThreadStatus", "update_thread_status")
                    EXCEPT !.tid = thread_id, !.st = status], write_ok)

\* POST /api/reviews/{id}/revisions: store.get_review(review_id), then
\* diff_against_base.
StartCreateRevision(h, id, trigger, git) ==
    LET r == [New("CreateRevision", "get_review")
                EXCEPT !.rid = id, !.trigger = trigger, !.message = <<"msg">>, !.git = git]
    IN /\ Free(h)
       /\ RevisionsBooked < MaxRevisions
       /\ lock = 0
       /\ req' = [req EXCEPT ![h] =
                    IF id \notin DOMAIN state.reviews
                    THEN AfterErr(r, "ReviewNotFound")
                    ELSE IF diff_failed(git) THEN Respond(r, "BadRequest", "git")
                    ELSE [r EXCEPT !.pc = "get_latest_revision", !.files = diff_files(git)]]
       /\ (id \notin DOMAIN state.reviews => git = GitError)
       /\ OnlyReq

(***************************************************************************)
(* The handlers' other steps                                               *)
(***************************************************************************)
\* create_revision handler: `if let Ok(latest) = store.get_latest_revision(..)`
\* and the comparison that follows it.
GetLatestRevision(h) ==
    LET r == req[h]
        found == IF r.rid \in DOMAIN state.reviews
                 THEN get_latest_revision(state, r.rid) ELSE <<>>
    IN /\ At(h, "get_latest_revision")
       /\ lock = 0
       /\ req' = [req EXCEPT ![h] =
                    IF found # <<>> /\ no_changes(found[1].files, r.files)
                    THEN Respond(r, "BadRequest", NoChangesMsg)
                    ELSE [r EXCEPT !.pc = "create_revision",
                                   !.seen = IF found = <<>> THEN 0
                                            ELSE found[1].revision_number]]
       /\ OnlyReq

\* create_review handler: store.get_threads(review.id, None).await?
GetThreads(h) ==
    LET r == req[h]
    IN /\ At(h, "get_threads")
       /\ lock = 0
       /\ req' = [req EXCEPT ![h] =
                    IF r.rid \in DOMAIN state.reviews
                    THEN [r EXCEPT !.pc = "publish"]
                    ELSE AfterErr(r, "ReviewNotFound")]
       /\ OnlyReq

\* A handler that resets the status only when a human commented.
RemovedForHuman(map, thread_id, author_type) ==
    IF author_type = "Human" THEN [t \in DOMAIN map \ {thread_id} |-> map[t]] ELSE map

\* HashMap::remove(&id), whoever the comment's author is.
Removed(map, thread_id, author_type) == [t \in DOMAIN map \ {thread_id} |-> map[t]]

\* add_comment handler: state.agent_status.lock().await.remove(&id)
ClearAgentStatus(h) ==
    LET r == req[h]
    IN /\ r.pc = "clear_agent_status"
       /\ agent_status' = Removed(agent_status, r.tid, r.author)
       /\ req' = [req EXCEPT ![h].pc = "get_thread"]
       /\ UNCHANGED <<state, lock, disk, tmp, faults>> /\ Unchanged_ids /\ Silent

\* add_comment / update_thread_status handlers: `if let Ok(thread) = store.get_thread(id)`
GetThread(h) ==
    LET r == req[h]
    IN /\ At(h, "get_thread")
       /\ lock = 0
       /\ req' = [req EXCEPT ![h] =
                    IF r.tid \in DOMAIN state.threads
                    THEN [r EXCEPT !.pc = "publish",
                                   !.ev_review = state.threads[r.tid].review_id]
                    ELSE Respond(r, "Ok", "")]
       /\ OnlyReq

\* PUT /api/threads/{id}/agent-status: store.get_thread(id).await?
StartSetAgentStatus(h, thread_id, status) ==
    LET r == [New("SetAgentStatus", "get_thread") EXCEPT !.tid = thread_id, !.agent = status]
    IN /\ Free(h)
       /\ lock = 0
       /\ req' = [req EXCEPT ![h] =
                    IF thread_id \in DOMAIN state.threads
                    THEN [r EXCEPT !.pc = "set_agent_status",
                                   !.ev_review = state.threads[thread_id].review_id]
                    ELSE AfterErr(r, "ThreadNotFound")]
       /\ OnlyReq

\* A map that keeps the status a thread already has.
InsertedIfAbsent(map, thread_id, status) ==
    [t \in DOMAIN map \cup {thread_id} |-> IF t \in DOMAIN map THEN map[t] ELSE status]

\* HashMap::insert(id, status)
Inserted(map, thread_id, status) ==
    [t \in DOMAIN map \cup {thread_id} |-> IF t = thread_id THEN status ELSE map[t]]

\* set_agent_status handler: state.agent_status.lock().await.insert(id, status)
SetAgentStatus(h) ==
    LET r == req[h]
    IN /\ At(h, "set_agent_status")
       /\ agent_status' = Inserted(agent_status, r.tid, r.agent)
       /\ req' = [req EXCEPT ![h].pc = "publish"]
       /\ UNCHANGED <<state, lock, disk, tmp, faults>> /\ Unchanged_ids /\ Silent

\* list_threads handler: the agent_status each ThreadResponse of the review carries.
list_threads(s, statuses, review_id) ==
    [t \in ThreadsOf(s, review_id) |-> IF t \in DOMAIN statuses THEN statuses[t] ELSE "null"]

\* list_threads handler, first await: store.get_threads(id, filter.file).await?
\* The store method takes the snapshot lock, reads, and drops it on return.
StartListThreads(h, id) ==
    LET r == [New("ListThreads", "get_threads") EXCEPT !.rid = id]
    IN /\ Free(h)
       /\ lock = 0
       /\ req' = [req EXCEPT ![h] =
                    IF id \in DOMAIN state.reviews
                    THEN [r EXCEPT !.pc = "agent_statuses",
                                   !.body = [t \in ThreadsOf(state, id) |-> "null"]]
                    ELSE AfterErr(r, "ReviewNotFound")]
       /\ OnlyReq

\* list_threads handler, second await: state.agent_status.lock().await, then the
\* responses are built with no await while the guard is held.
ListAgentStatuses(h) ==
    LET r == req[h]
    IN /\ At(h, "agent_statuses")
       /\ req' = [req EXCEPT ![h] =
                    [Respond(r, "Ok", "") EXCEPT !.body =
                        [t \in DOMAIN r.body |-> IF t \in DOMAIN agent_status
                                             THEN agent_status[t] ELSE "null"]]]
       /\ OnlyReq

NotOpenMsg == "Review is not open"

\* A handler that asks for a revision whatever the review's status.
not_open_never(review) == FALSE

\* request_revision: review.status != ReviewStatus::Open
not_open(review) == review.status # "Open"

\* POST /api/reviews/{id}/request-revision: get_review, the status test, the send.
StartRequestRevision(h, id) ==
    LET r == [New("RequestRevision", "get_review") EXCEPT !.rid = id]
    IN /\ Free(h)
       /\ lock = 0
       /\ req' = [req EXCEPT ![h] =
                    IF id \notin DOMAIN state.reviews THEN AfterErr(r, "ReviewNotFound")
                    ELSE IF not_open(state.reviews[id])
                    THEN Respond(r, "BadRequest", NotOpenMsg)
                    ELSE [r EXCEPT !.pc = "publish"]]
       /\ OnlyReq

(***************************************************************************)
(* GET /api/reviews/{id} (routes/reviews.rs get_review): three store       *)
(* calls, each under its own lock                                          *)
(***************************************************************************)
\* store.get_review(id).await?
StartGetReview(h, id) ==
    LET r == [New("GetReview", "count_threads") EXCEPT !.rid = id]
        res == Read("get_review", state, id, 0)
    IN /\ Free(h)
       /\ lock = 0
       /\ req' = [req EXCEPT ![h] = IF res # "Ok" THEN AfterErr(r, res) ELSE r]
       /\ OnlyReq

\* store.get_threads(id, None).await?, then thread_count and open_thread_count.
GetReviewThreads(h) ==
    LET r == req[h]
        res == Read("get_threads", state, r.rid, 0)
        threads == get_threads(state, r.rid)
    IN /\ At(h, "count_threads")
       /\ lock = 0
       /\ req' = [req EXCEPT ![h] =
                    IF res # "Ok" THEN AfterErr(r, res)
                    ELSE [r EXCEPT !.pc = "count_files",
                                   !.body = [thread_count |-> Cardinality(threads),
                                             open_thread_count |->
                                                Cardinality({t \in threads :
                                                                /\ t.status = "Open"
                                                                /\ t.origin # "AgentExplanation"})]]]
       /\ OnlyReq

\* store.get_revisions(id).await?, then file_count = revisions.last() files
\* and revision_count, and the ReviewResponse.
GetReviewRevisions(h) ==
    LET r == req[h]
        res == Read("get_revisions", state, r.rid, 0)
        revisions == get_revisions(state, r.rid)
        file_count == IF revisions = <<>> THEN 0 ELSE Len(revisions[Len(revisions)].files)
    IN /\ At(h, "count_files")
       /\ lock = 0
       /\ req' = [req EXCEPT ![h] =
                    IF res # "Ok" THEN AfterErr(r, res)
                    ELSE Respond([r EXCEPT !.body = [thread_count |-> r.body.thread_count,
                                                     open_thread_count |-> r.body.open_thread_count,
                                                     file_count |-> file_count,
                                                     revision_count |-> Len(revisions)]],
                                 "Ok", "")]
       /\ OnlyReq

(***************************************************************************)
(* The file handlers (routes/files.rs)                                     *)
(***************************************************************************)
\* get_revision: the review's revision with that number, as a sequence of
\* at most one element.
get_revision(s, review_id, revision_number) ==
    SelectSeq(get_revisions(s, review_id), LAMBDA rev : rev.revision_number = revision_number)

\* `match query.revision { Some(n) => get_revision(id, n), None => get_latest_revision(id) }`:
\* the StoreError, or "Ok" and the revision.
selected_revision(s, id, revision) ==
    LET method == IF revision # <<>> THEN "get_revision" ELSE "get_latest_revision"
        n == IF revision # <<>> THEN revision[1] ELSE 0
        res == Read(method, s, id, n)
    IN [res |-> res,
        rev |-> IF res # "Ok" THEN <<>>
                ELSE IF revision # <<>> THEN get_revision(s, id, n)
                ELSE get_latest_revision(s, id)]

\* list_files: one FileListEntry per file of the revision.
FileListEntries(files) ==
    [i \in DOMAIN files |-> [path |-> EffectivePath(files[i]), status |-> files[i].status]]

\* get_file_diff: revision.files.iter().find(|f| effective_path == file_path)
find_file(files, file_path) ==
    SelectSeq(files, LAMBDA f : EffectivePath(f) = file_path)

FileNotFoundMsg == "file not found"

\* GET /api/reviews/{id}/files?revision=N
StartListFiles(h, id, revision) ==
    LET r == [New("ListFiles", "get_revision") EXCEPT !.rid = id, !.revision = revision]
        sel == selected_revision(state, id, revision)
    IN /\ Free(h)
       /\ lock = 0
       /\ req' = [req EXCEPT ![h] =
                    IF sel.res # "Ok" THEN AfterErr(r, sel.res)
                    ELSE Respond([r EXCEPT !.body = FileListEntries(sel.rev[1].files),
                                           !.rev_no = sel.rev[1].revision_number],
                                 "Ok", "")]
       /\ OnlyReq

\* GET /api/reviews/{id}/files/{path}?revision=N
StartGetFileDiff(h, id, file_path, revision) ==
    LET r == [New("GetFileDiff", "get_revision")
                EXCEPT !.rid = id, !.revision = revision, !.path = file_path]
        sel == selected_revision(state, id, revision)
        file_diff == IF sel.res = "Ok" THEN find_file(sel.rev[1].files, file_path) ELSE <<>>
    IN /\ Free(h)
       /\ lock = 0
       /\ req' = [req EXCEPT ![h] =
                    IF sel.res # "Ok" THEN AfterErr(r, sel.res)
                    ELSE IF file_diff = <<>> THEN Respond(r, "NotFound", FileNotFoundMsg)
                    ELSE Respond([r EXCEPT !.body = <<Head(file_diff)>>,
                                           !.rev_no = sel.rev[1].revision_number],
                                 "Ok", "")]
       /\ OnlyReq

\* A handler that announces only one of the reviews it deleted.
OrdersOfOne(ids) == IF ids = {} THEN {<<>>} ELSE {<<id>> : id \in ids}

\* The orders in which a Vec collected from a HashMap can list a set of ids.
Orders(ids) ==
    {q \in [1..Cardinality(ids) -> ids] : \A i, j \in DOMAIN q : i # j => q[i] # q[j]}

\* The events the handler sends to ws_tx before it returns Ok.
EventsOf(r, order) ==
    CASE r.kind = "CreateReview" -> <<Event("ReviewCreated", r.rid)>>
      [] r.kind = "UpdateReviewStatus" -> <<Event("ReviewStatusChanged", r.rid)>>
      [] r.kind = "DeleteReview" -> <<Event("ReviewDeleted", r.rid)>>
      [] r.kind = "DeleteClosedReviews" ->
            [i \in DOMAIN order |-> Event("ReviewDeleted", order[i])]
      [] r.kind = "CreateThread" -> <<Event("ThreadCreated", r.rid)>>
      [] r.kind = "AddComment" -> <<Event("CommentAdded", r.ev_review)>>
      [] r.kind = "UpdateThreadStatus" -> <<Event("ThreadStatusChanged", r.ev_review)>>
      [] r.kind = "SetAgentStatus" -> <<Acknowledged(r.ev_review, r.tid, r.agent)>>
      [] r.kind = "RequestRevision" -> <<Event("RevisionRequested", r.rid)>>
      [] OTHER -> <<>>

\* A handler that answers 500 when its send found no Receiver.
AfterSendChecked(r, result) == IF result = "Err" THEN Respond(r, "Internal", "") ELSE r

\* `let _ = state.ws_tx.send(..)`: the send's result is discarded.
AfterSend(r, result) == r

\* `let _ = state.ws_tx.send(..)` and the handler's Ok return.
Publish(h) ==
    LET r == req[h]
        n_rx == rx_cnt(ws_rx)
    IN /\ r.pc = "publish"
       /\ \E order \in Orders(r.deleted) :
            LET events == EventsOf(r, order)
                answered == Respond([r EXCEPT !.pub = @ \o events], "Ok", "")
            IN /\ req' = [req EXCEPT ![h] =
                            IF events = <<>> THEN answered
                            ELSE AfterSend(answered, SendResult(n_rx))]
               /\ ws_tx' = Accepted(ws_tx, Len(events), n_rx)
       /\ UNCHANGED <<state, lock, disk, tmp, faults, agent_status>> /\ Unchanged_ids
       /\ UNCHANGED <<agent_presence, trace, ws_rx>> /\ McpIdle

\* The response has been written; the slot is free for the next request.
Finish(h) ==
    /\ req[h].pc = "done"
    /\ req' = [req EXCEPT ![h] = Idle]
    /\ OnlyReq

\* The process dies (at any point, also between persist's write and rename, or
\* in the middle of the write) and `serve` starts again: main.rs run_serve,
\* JsonFileStore::new.
Restart(torn) ==
    /\ \A k \in Slots : ~InTail(req[k])
    /\ (disk.exists => disk.complete)      \* serde_json::from_str(&data)? stops the start
    /\ (torn => lock # 0)
    /\ Faulty(FALSE)
    /\ state' = LoadState(disk)
    /\ lock' = 0
    /\ tmp' = IF torn THEN Truncated ELSE tmp
    /\ agent_status' = EmptyFn
    /\ req' = [h \in Slots |-> Idle]
    /\ agent_presence' = [id \in ReviewIds |-> NoPresence]
    /\ ws_tx' = 0
    /\ ws_rx' = [w \in Writers |-> NoWriter]
    /\ UNCHANGED <<disk, trace>>
    /\ Unchanged_ids /\ McpIdle

\* The process stops and `serve --fresh` starts: run_serve with fresh = true,
\* JsonFileStore::new_empty.  The snapshot file is neither read nor written.
FreshStart ==
    /\ \A k \in Slots : ~InTail(req[k])
    /\ state' = EmptyState
    /\ lock' = 0
    /\ agent_status' = EmptyFn
    /\ req' = [h \in Slots |-> Idle]
    /\ agent_presence' = [id \in ReviewIds |-> NoPresence]
    /\ ws_tx' = 0
    /\ ws_rx' = [w \in Writers |-> NoWriter]
    /\ UNCHANGED <<disk, tmp, trace, faults>>
    /\ Unchanged_ids /\ McpIdle

(***************************************************************************)
(* The presence tracker's methods and its disconnect task.  Each holds the *)
(* tracker's Mutex from its first line to its last, with no await between. *)
(***************************************************************************)
\* Nothing of the store or of the requests in flight changes.
StoreIdle ==
    UNCHANGED <<state, lock, disk, tmp, faults, agent_status, req>> /\ Unchanged_ids /\ McpIdle

\* AgentPresenceTracker::register(review_id)
Register(id) ==
    LET entry == agent_presence[id]
        says == announces(entry.connected)
    IN /\ Calls < MaxCalls
       /\ agent_presence' = [agent_presence EXCEPT ![id] = register(entry)]
       /\ trace' = trace \o <<TraceEntry("register", id, TRUE)>>
                         \o (IF says THEN <<TraceEntry("event", id, TRUE)>> ELSE <<>>)
       /\ ws_tx' = Accepted(ws_tx, IF says THEN 1 ELSE 0, rx_cnt(ws_rx))
       /\ UNCHANGED ws_rx /\ StoreIdle

\* AgentPresenceTracker::deregister(review_id)
Deregister(id) ==
    /\ Calls < MaxCalls
    /\ agent_presence' = [agent_presence EXCEPT ![id] = deregister(@)]
    /\ trace' = Append(trace, TraceEntry("deregister", id, FALSE))
    /\ UNCHANGED <<ws_tx, ws_rx>> /\ StoreIdle

\* The task deregister spawned wakes from its 5 s sleep.  An aborted task
\* never runs again: register and deregister take the handle out of the map.
GraceExpiry(id) ==
    LET entry == agent_presence[id]
        flips == entry.known /\ entry.connected
    IN /\ entry.handle = "sleeping"
       /\ agent_presence' = [agent_presence EXCEPT ![id] =
                                IF flips THEN expire(entry)
                                ELSE [entry EXCEPT !.handle = "finished"]]
       /\ trace' = trace \o <<TraceEntry("expire", id, FALSE)>>
                         \o (IF flips /\ ~agent_presence'[id].connected
                             THEN <<TraceEntry("event", id, FALSE)>> ELSE <<>>)
       /\ ws_tx' = Accepted(ws_tx, IF flips /\ ~agent_presence'[id].connected THEN 1 ELSE 0,
                            rx_cnt(ws_rx))
       /\ UNCHANGED ws_rx /\ StoreIdle

\* AgentPresenceTracker::is_connected(review_id)
is_connected(map, id) == map[id].known /\ map[id].connected

(***************************************************************************)
(* The WebSocket writers (ws.rs handle_socket)                             *)
(***************************************************************************)
\* GET /api/ws upgraded: handle_socket starts with state.ws_tx.subscribe().
Subscribe(w) ==
    /\ ws_rx[w].pc # "recv"
    /\ ws_rx' = [ws_rx EXCEPT ![w] =
                    [NoWriter EXCEPT !.pc = "recv", !.open = TRUE,
                                     !.next = Subscribed(ws_tx), !.since = ws_tx]]
    /\ UNCHANGED <<ws_tx, agent_presence, trace>> /\ StoreIdle

\* rx.recv().await returns: Lagged(n), or the next event, which is forwarded.
\* (RecvError::Closed needs every Sender dropped; handle_socket owns one.)
Recv(w) ==
    LET writer == ws_rx[w]
        n == Missed(writer.next, ws_tx)
    IN /\ writer.pc = "recv"
       /\ writer.next < ws_tx
       /\ ws_rx' = [ws_rx EXCEPT ![w] =
                       IF n > 0 THEN AfterLagged(writer, n) ELSE AfterEvent(writer)]
       /\ UNCHANGED <<ws_tx, agent_presence, trace>> /\ StoreIdle

\* The client goes away; the writer finds out at its next socket.send.
ClientCloses(w) ==
    /\ ws_rx[w].pc = "recv"
    /\ ws_rx[w].open
    /\ ws_rx' = [ws_rx EXCEPT ![w].open = FALSE]
    /\ UNCHANGED <<ws_tx, agent_presence, trace>> /\ StoreIdle

(***************************************************************************)
(* wait_for_event (preflight-mcp/src/server.rs) and the task that feeds    *)
(* the MCP process's channel (client.rs connect_ws)                        *)
(***************************************************************************)
\* Nothing of the server process changes.
ServerIdle ==
    UNCHANGED <<state, lock, disk, tmp, faults, agent_status, req,
                next_review, next_thread, next_revision,
                agent_presence, trace, ws_tx, ws_rx, pure, ws_client>>

\* The events the feeding task may send during one call: enough to lag
\* a call that waits ShortWait seconds or less, MaxOverrun on a longer one.
Burst(w) == IF w.timeout <= ShortWait THEN Capacity + MaxOverrun ELSE MaxOverrun

\* The tool is called: the Duration is computed and the Receiver subscribed.
StartWaitForEvent(timeout_secs) ==
    /\ wait.pc # "recv"
    /\ mcp_tx <= MaxOverrun
    /\ wait' = [NoWait EXCEPT !.pc = "recv", !.timeout_secs = timeout_secs,
                              !.timeout = timeout_of(timeout_secs),
                              !.since = mcp_tx, !.next = Subscribed(mcp_tx)]
    /\ UNCHANGED mcp_tx /\ ServerIdle

\* connect_ws's task rebroadcasts an event it read from the server's WebSocket.
Rebroadcast ==
    /\ mcp_tx - wait.since < Burst(wait)
    /\ mcp_tx' = Accepted(mcp_tx, 1, IF wait.pc = "recv" THEN 1 ELSE 0)
    /\ UNCHANGED wait /\ ServerIdle

\* rx.recv().await returns inside the timeout: Lagged(n), an event the filters
\* reject (both `continue`), or an event that matches.
WaitRecv(matches) ==
    LET n == Missed(wait.next, mcp_tx)
    IN /\ wait.pc = "recv"
       /\ wait.next < mcp_tx
       /\ wait' = IF n > 0
                  THEN [wait EXCEPT !.next = @ + n, !.lagged = n]
                  ELSE IF ~matches
                  THEN [wait EXCEPT !.next = @ + 1, !.skipped = 1]
                  ELSE Replied([wait EXCEPT !.next = @ + 1], "Ok", "event")
       /\ (n > 0 => matches)
       /\ UNCHANGED mcp_tx /\ ServerIdle

\* A second passes while the call waits; the Duration has not run out.
Tick ==
    /\ wait.pc = "recv"
    /\ wait.elapsed < wait.timeout
    /\ wait' = [wait EXCEPT !.elapsed = @ + 1]
    /\ UNCHANGED mcp_tx /\ ServerIdle

\* tokio::time::timeout returns Err(Elapsed): the reply is Ok({"timeout": true, ..}).
WaitExpires ==
    /\ wait.pc = "recv"
    /\ wait.elapsed >= wait.timeout
    /\ wait' = Replied(wait, "Ok", "timeout")
    /\ UNCHANGED mcp_tx /\ ServerIdle

(***************************************************************************)
(* Next-state relations.  Common are the steps every handler shares.       *)
(***************************************************************************)
ReviewStatuses == {"Open", "Closed"}
ThreadStatuses == {"Open", "Resolved"}
AuthorTypes == {"Human", "Agent"}

\* S: the slots requests may take; IO: the outcomes an I/O call may have.
StoreSteps(S, IO) ==
    \/ \E h \in S, ok \in IO : StoreCall(h, ok)
    \/ \E h \in S, ok \in IO : StoreRename(h, ok)

Tails(S) ==
    \/ \E h \in S : Publish(h)
    \/ \E h \in S : Finish(h)

Crashes == \E torn \in BOOLEAN : Restart(torn)

ReviewRequests(S, IO, G) ==
    \/ \E h \in S, git \in G, ok \in IO : StartCreateReview(h, git, ok)
    \/ \E h \in S : GetThreads(h)
    \/ \E h \in S, id \in ReviewIds, ok \in IO : StartDeleteReview(h, id, ok)

StatusRequests(S, IO, Statuses) ==
    \/ \E h \in S, id \in ReviewIds, status \in Statuses, ok \in IO :
            StartUpdateReviewStatus(h, id, status, ok)
    \/ \E h \in S, ok \in IO : StartDeleteClosedReviews(h, ok)

RevisionRequests(S, G) ==
    \/ \E h \in S, id \in ReviewIds, git \in G : StartCreateRevision(h, id, "Agent", git)
    \/ \E h \in S : GetLatestRevision(h)

\* The timeout_secs a caller passes: none, or a number of seconds.
TimeoutInputs == {<<>>, <<0>>, <<ShortWait>>, <<TimeoutCap>>, <<TimeoutCap + 1>>}

McpCalls ==
    \/ \E timeout_secs \in TimeoutInputs : StartWaitForEvent(timeout_secs)
    \/ Rebroadcast
    \/ \E matches \in BOOLEAN : WaitRecv(matches)
    \/ Tick
    \/ WaitExpires

\* The values of ?revision= the requests carry: none, or a number.
Selectors == {<<>>} \cup {<<n>> : n \in 1..MaxRevisions}

FilePaths == {"a.rs", "b.rs", ""}

FileRequests(S, Ids) ==
    \/ \E h \in S, id \in Ids, revision \in Selectors : StartListFiles(h, id, revision)
    \/ \E h \in S, id \in Ids, file_path \in FilePaths, revision \in Selectors :
            StartGetFileDiff(h, id, file_path, revision)

\* GET /api/reviews/{id} for the reviews Ids.
SummaryRequests(S, Ids) ==
    \/ \E h \in S, id \in Ids : StartGetReview(h, id)
    \/ \E h \in S : GetReviewThreads(h)
    \/ \E h \in S : GetReviewRevisions(h)

ThreadOrigins == {"Comment", "ExplanationRequest", "AgentExplanation"}

\* The line numbers the requests carry.
Lines == 1..2

\* Threads opened with any line range, by the authors A with the origins O.
OpeningRequests(S, Ids, IO, A, O) ==
    \E h \in S, id \in Ids, ok \in IO, a \in A,
       line_start \in Lines, line_end \in Lines, origin \in O :
        StartCreateThread(h, id, CreateThreadRequest(a, line_start, line_end, origin), ok)

\* T: the thread ids the requests may create and name.
ThreadRequests(S, IO, Opening, Replying, T) ==
    \/ \E h \in S, id \in ReviewIds, a \in Opening, ok \in IO :
            next_thread + 1 \in T /\ StartCreateThread(h, id, CommentOn1(a), ok)
    \/ \E h \in S, t \in T, a \in Replying, ok \in IO :
            StartAddComment(h, t, a, ok)
    \/ \E h \in S, t \in T, status \in ThreadStatuses, ok \in IO :
            StartUpdateThreadStatus(h, t, status, ok)
    \/ \E h \in S : ClearAgentStatus(h)
    \/ \E h \in S : GetThread(h)

AgentStatuses == {"Seen", "Working"}

AgentStatusRequests(S, T) ==
    \/ \E h \in S, t \in T, status \in AgentStatuses : StartSetAgentStatus(h, t, status)
    \/ \E h \in S : SetAgentStatus(h)

ListRequests(S, Ids) ==
    \/ \E h \in S, id \in Ids : StartListThreads(h, id)
    \/ \E h \in S : ListAgentStatuses(h)

Tracker(Ids) ==
    \/ \E id \in Ids : Register(id)
    \/ \E id \in Ids : Deregister(id)
    \/ \E id \in Ids : GraceExpiry(id)

Sockets(W) ==
    \/ \E w \in W : Subscribe(w)
    \/ \E w \in W : Recv(w)
    \/ \E w \in W : ClientCloses(w)

\* ---------------------------------------------------------------------------
\* connect_ws: the task that connects, forwards, and reconnects with backoff.
\* Time is counted in seconds; ws_client.up is the server's reach, which the
\* environment changes.

min(a, b) == IF a <= b THEN a ELSE b

\* backoff = (backoff * 2).min(max_backoff)
next_backoff(backoff) == min(backoff * 2, max_backoff)

\* backoff = Duration::from_secs(1) on Ok of connect_async.
backoff_kept(backoff) == backoff

backoff_on_connect(backoff) == InitialBackoff

OnlyClient ==
    UNCHANGED <<state, lock, disk, tmp, faults, agent_status, req,
                next_review, next_thread, next_revision,
                agent_presence, trace, ws_tx, ws_rx, mcp_tx, wait, pure>>

ConnectOk ==
    /\ ws_client.pc = "connecting"
    /\ ws_client.up
    /\ ws_client' = [ws_client EXCEPT !.pc = "connected",
                                      !.backoff = backoff_on_connect(@)]
    /\ OnlyClient

ConnectErr ==
    /\ ws_client.pc = "connecting"
    /\ ~ws_client.up
    /\ ws_client' = [ws_client EXCEPT !.pc = "sleeping", !.elapsed = 0]
    /\ OnlyClient

\* The stream ends, or gives Close or an error: the while loop is left.
Disconnected ==
    /\ ws_client.pc = "connected"
    /\ ws_client' = [ws_client EXCEPT !.pc = "sleeping", !.elapsed = 0]
    /\ OnlyClient

\* One second of tokio::time::sleep(backoff).
SleepTick ==
    /\ ws_client.pc = "sleeping"
    /\ ws_client.elapsed < ws_client.backoff
    /\ ws_client' = [ws_client EXCEPT !.elapsed = @ + 1]
    /\ OnlyClient

\* The sleep is over: the backoff is doubled and the loop connects again.
Retry ==
    /\ ws_client.pc = "sleeping"
    /\ ws_client.elapsed >= ws_client.backoff
    /\ ws_client' = [ws_client EXCEPT !.pc = "connecting", !.elapsed = 0,
                                      !.backoff = next_backoff(@)]
    /\ OnlyClient

ServerReach(up) ==
    /\ ws_client.up # up
    /\ ws_client' = [ws_client EXCEPT !.up = up]
    /\ OnlyClient

NextClient ==
    \/ ConnectOk \/ ConnectErr \/ Disconnected \/ SleepTick \/ Retry
    \/ \E up \in BOOLEAN : ServerReach(up)

\* ---------------------------------------------------------------------------
\* wait_for_event: the two filters of the receive loop.

\* WsEventType, and its names on the wire (#[serde(rename_all = "snake_case")]).
WsEventType ==
    {"ReviewCreated", "ReviewStatusChanged", "ReviewDeleted", "RevisionCreated",
     "ThreadCreated", "CommentAdded", "ThreadStatusChanged", "ThreadAcknowledged",
     "ThreadPoked", "RevisionRequested", "AgentPresenceChanged"}

snake_case(event_type) ==
    CASE event_type = "ReviewCreated" -> "review_created"
      [] event_type = "ReviewStatusChanged" -> "review_status_changed"
      [] event_type = "ReviewDeleted" -> "review_deleted"
      [] event_type = "RevisionCreated" -> "revision_created"
      [] event_type = "ThreadCreated" -> "thread_created"
      [] event_type = "CommentAdded" -> "comment_added"
      [] event_type = "ThreadStatusChanged" -> "thread_status_changed"
      [] event_type = "ThreadAcknowledged" -> "thread_acknowledged"
      [] event_type = "ThreadPoked" -> "thread_poked"
      [] event_type = "RevisionRequested" -> "revision_requested"
      [] event_type = "AgentPresenceChanged" -> "agent_presence_changed"

event_type_matches(event_type, filter) ==
    CASE filter = "review_created" -> event_type = "ReviewCreated"
      [] filter = "review_status_changed" -> event_type = "ReviewStatusChanged"
      [] filter = "revision_created" -> event_type = "RevisionCreated"
      [] filter = "thread_created" -> event_type = "ThreadCreated"
      [] filter = "comment_added" -> event_type = "CommentAdded"
      [] filter = "thread_status_changed" -> event_type = "ThreadStatusChanged"
      [] OTHER -> FALSE

\* The two `continue`s of the loop: review_id and event_types are Options,
\* <<>> for None and <<v>> for Some(v).
passes(event, review_id, event_types) ==
    /\ review_id # <<>> => event.review_id = review_id[1]
    /\ event_types # <<>> =>
          \E i \in DOMAIN event_types[1] :
              event_type_matches(event.event_type, event_types[1][i])

\* wait_for_event is called with the two filters; it has subscribed.
WaitFor(review_id, event_types) ==
    /\ pure = NoCall
    /\ pure' = [fn |-> "wait_for_event", review_id |-> review_id,
                event_types |-> event_types, received |-> <<>>, result |-> <<>>]
    /\ OnlyPure

\* rx.recv() gives Ok(event): the loop returns it or goes on.
WaitRecvEvent(event) ==
    /\ pure.fn = "wait_for_event"
    /\ pure.result = <<>>
    /\ Len(pure.received) < MaxRecv
    /\ pure' = [pure EXCEPT !.received = Append(@, event),
                            !.result = IF passes(event, pure.review_id, pure.event_types)
                                       THEN <<event>> ELSE <<>>]
    /\ OnlyPure

TypeFilters ==
    {<<>>, << <<>> >>, << <<"thread_created", "review_deleted">> >>}
        \cup {<< <<snake_case(t)>> >> : t \in WsEventType}

NextFilter ==
    \/ \E review_id \in {<<>>, <<1>>}, event_types \in TypeFilters :
            WaitFor(review_id, event_types)
    \/ \E t \in WsEventType, id \in {1, 2} : WaitRecvEvent(Event(t, id))

\* compute_interdiff applied to a base text and a hunk list taken as both
\* revisions, or as one of them with no hunk as the other.
NextInterdiff ==
    /\ pure = NoCall
    /\ \E base_content \in Texts, from_hunks \in HunkLists :
          \E to_hunks \in {from_hunks, <<>>} :
              CallComputeInterdiff(base_content, from_hunks, to_hunks)

\* parse_file_block's hunk loop applied to a hunk header and the lines after
\* it, in a build with and in one without overflow checks.
NextParse ==
    /\ pure = NoCall
    /\ \E header \in Headers, body \in SeqsUpTo(BodyLines, MaxBody), checks \in BOOLEAN :
          CallParseHunks(<<header>> \o body, checks)

Next ==
    \/ StoreSteps(Slots, BOOLEAN) \/ Tails(Slots) \/ Crashes
    \/ ReviewRequests(Slots, BOOLEAN, GitResults)
    \/ StatusRequests(Slots, BOOLEAN, ReviewStatuses)
    \/ RevisionRequests(Slots, GitResults)
    \/ ThreadRequests(Slots, BOOLEAN, AuthorTypes, AuthorTypes, ThreadIds)
    \/ AgentStatusRequests(Slots, ThreadIds)
    \/ \E h \in Slots, id \in ReviewIds : StartRequestRevision(h, id)
    \/ FileRequests(Slots, ReviewIds)
    \/ OpeningRequests(Slots, ReviewIds, BOOLEAN, AuthorTypes, ThreadOrigins)
    \/ FreshStart
    \/ McpCalls
    \/ SummaryRequests(Slots, ReviewIds)
    \/ ListRequests(Slots, ReviewIds)
    \/ NextInterdiff
    \/ NextParse
    \/ NextFilter
    \/ NextClient
    \/ Tracker(ReviewIds)
    \/ Sockets(Writers)

Spec == Init /\ [][Next]_vars

\* The review and revision handlers over every diff, with I/O that succeeds.
NextRevisions ==
    \/ StoreSteps(Slots, {TRUE}) \/ Tails(Slots)
    \/ ReviewRequests(Slots, {TRUE}, GitResults) \/ RevisionRequests(Slots, GitResults)

SpecRevisions == Init /\ [][NextRevisions]_vars

\* The handlers that create reviews and revisions and those that read a
\* revision's files, with I/O that succeeds.
NextFiles ==
    \/ StoreSteps(Slots, {TRUE}) \/ Tails(Slots)
    \/ ReviewRequests(Slots, {TRUE}, {GitError, 1, ParseFails})
    \/ RevisionRequests(Slots, {GitError, 1, 2, ParseFails})
    \/ FileRequests(Slots, ReviewIds)

SpecFiles == Init /\ [][NextFiles]_vars

\* The review and thread handlers, with failing I/O and crashes.
NextThreads ==
    \/ StoreSteps(Slots, BOOLEAN) \/ Tails(Slots) \/ Crashes
    \/ ReviewRequests(Slots, BOOLEAN, {GitError, 1})
    \/ StatusRequests(Slots, BOOLEAN, ReviewStatuses)
    \/ ThreadRequests(Slots, BOOLEAN, {"Human"}, {"Agent"}, {1})

SpecThreads == Init /\ [][NextThreads]_vars

\* The handlers that create and delete revisions, with failing I/O and crashes.
NextNumbering ==
    \/ StoreSteps(Slots, BOOLEAN) \/ Tails(Slots) \/ Crashes
    \/ ReviewRequests(Slots, BOOLEAN, {GitError, 1})
    \/ StatusRequests(Slots, BOOLEAN, {"Closed"})
    \/ RevisionRequests(Slots, {GitError, 1, 2})

SpecNumbering == Init /\ [][NextNumbering]_vars

\* One review's threads, their comments and agent statuses, with I/O that succeeds.
NextAgentStatus ==
    \/ StoreSteps(Slots, {TRUE}) \/ Tails(Slots)
    \/ \E h \in Slots : next_review = 0 /\ StartCreateReview(h, 1, TRUE)
    \/ \E h \in Slots : GetThreads(h)
    \/ \E h \in Slots : StartDeleteReview(h, 1, TRUE)
    \/ \E h \in Slots : StartCreateThread(h, 1, CommentOn1("Human"), TRUE)
    \/ \E h \in Slots, t \in ThreadIds, a \in AuthorTypes : StartAddComment(h, t, a, TRUE)
    \/ \E h \in Slots : ClearAgentStatus(h)
    \/ \E h \in Slots : GetThread(h)
    \/ AgentStatusRequests(Slots, ThreadIds)

SpecAgentStatus == Init /\ [][NextAgentStatus]_vars

\* One review's threads, opened with any line range, and their comments,
\* with I/O that succeeds.
NextOpening ==
    \/ StoreSteps(Slots, {TRUE}) \/ Tails(Slots)
    \/ \E h \in Slots : next_review = 0 /\ StartCreateReview(h, 1, TRUE)
    \/ \E h \in Slots : GetThreads(h)
    \/ OpeningRequests(Slots, {1}, {TRUE}, {"Human"}, {"Comment"})
    \/ \E h \in Slots, t \in ThreadIds, a \in AuthorTypes : StartAddComment(h, t, a, TRUE)
    \/ \E h \in Slots : ClearAgentStatus(h)
    \/ \E h \in Slots : GetThread(h)

SpecOpening == Init /\ [][NextOpening]_vars

\* Reviews created and deleted with I/O that succeeds, and the server
\* stopped between requests and started again, with or without --fresh.
NextFresh ==
    \/ StoreSteps(Slots, {TRUE}) \/ Tails(Slots)
    \/ ReviewRequests(Slots, {TRUE}, {1})
    \/ lock = 0 /\ Restart(FALSE)
    \/ lock = 0 /\ FreshStart

SpecFresh == Init /\ [][NextFresh]_vars

\* Reviews with revisions of one and of two files, threads of two origins
\* that are opened and resolved, and the summaries read, with I/O that succeeds.
NextSummary ==
    \/ StoreSteps(Slots, {TRUE}) \/ Tails(Slots)
    \/ ReviewRequests(Slots, {TRUE}, {1})
    \/ RevisionRequests(Slots, {4})
    \/ \E h \in Slots, id \in ReviewIds, origin \in {"Comment", "AgentExplanation"} :
            StartCreateThread(h, id, CreateThreadRequest("Human", 1, 1, origin), TRUE)
    \/ \E h \in Slots, t \in ThreadIds : StartUpdateThreadStatus(h, t, "Resolved", TRUE)
    \/ \E h \in Slots : GetThread(h)
    \/ SummaryRequests(Slots, ReviewIds)

SpecSummary == Init /\ [][NextSummary]_vars

\* Reviews and their revisions created and deleted, with persists that can
\* fail, and the files of a revision read, in one run of the server.
NextHistory ==
    \/ StoreSteps(Slots, BOOLEAN) \/ Tails(Slots)
    \/ ReviewRequests(Slots, BOOLEAN, {1})
    \/ RevisionRequests(Slots, {1, 4})
    \/ \E h \in Slots, id \in ReviewIds, revision \in Selectors : StartListFiles(h, id, revision)

SpecHistory == Init /\ [][NextHistory]_vars

\* The hunk parser alone.
\* Every handler that takes the AgentStatus lock, the store calls around them, and
\* the presence tracker with its timer tasks, with failing persists.
NextLocks ==
    \/ StoreSteps(Slots, BOOLEAN) \/ Tails(Slots)
    \/ \E h \in Slots : next_review = 0 /\ StartCreateReview(h, 1, TRUE)
    \/ \E h \in Slots : GetThreads(h)
    \/ \E h \in Slots : StartCreateThread(h, 1, CommentOn1("Human"), TRUE)
    \/ \E h \in Slots, a \in AuthorTypes, ok \in BOOLEAN : StartAddComment(h, 1, a, ok)
    \/ \E h \in Slots : ClearAgentStatus(h)
    \/ \E h \in Slots : GetThread(h)
    \/ \E h \in Slots : StartSetAgentStatus(h, 1, "Working")
    \/ \E h \in Slots : SetAgentStatus(h)
    \/ ListRequests(Slots, {1})
    \/ Calls < LockCalls /\ (Register(1) \/ Deregister(1))
    \/ GraceExpiry(1)

\* What request h does after it was started.
Advance(h) ==
    \/ StoreSteps({h}, BOOLEAN) \/ Tails({h})
    \/ GetThreads(h) \/ ClearAgentStatus(h) \/ GetThread(h)
    \/ SetAgentStatus(h) \/ ListAgentStatuses(h)

\* tokio polls every task that is ready, its Mutex hands the lock to the waiters
\* in the order they asked, and a sleeping timer task wakes when its time is up.
SpecLocks ==
    /\ Init /\ [][NextLocks]_vars
    /\ \A h \in Slots : SF_vars(Advance(h))
    /\ WF_vars(GraceExpiry(1))

\* The spawned task is polled whenever it is ready, a connection attempt ends, and
\* time passes.
SpecClient ==
    /\ Init /\ [][NextClient]_vars
    /\ WF_vars(ConnectOk) /\ WF_vars(ConnectErr) /\ WF_vars(SleepTick) /\ WF_vars(Retry)

SpecFilter == Init /\ [][NextFilter]_vars

SpecParse == Init /\ [][NextParse]_vars

\* compute_interdiff alone.
SpecInterdiff == Init /\ [][NextInterdiff]_vars

\* The MCP process alone: wait_for_event calls, the events its channel is
\* fed, and the seconds that pass.
NextWait == McpCalls

SpecWait == Init /\ [][NextWait]_vars

\* The handlers that publish, the tracker and the WebSocket writers, which come
\* and go; requests are admitted until the channel has accepted MaxSent events.
NextBus ==
    \/ StoreSteps({1}, {TRUE}) \/ Tails({1})
    \/ next_review = 0 /\ StartCreateReview(1, 1, TRUE)
    \/ GetThreads(1)
    \/ \E status \in ReviewStatuses :
          ws_tx < MaxSent /\ StartUpdateReviewStatus(1, 1, status, TRUE)
    \/ ws_tx < MaxSent /\ StartDeleteReview(1, 1, TRUE)
    \/ ws_tx < MaxSent /\ StartRequestRevision(1, 1)
    \/ ws_tx < MaxSent /\ Tracker({1})
    \/ Sockets(Writers)

SpecBus == Init /\ [][NextBus]_vars

\* Every writer but the first has forwarded all there is.
OthersKeepUp == \A w \in Writers \ {1} : ws_rx[w].pc = "recv" => ws_rx[w].next = ws_tx

\* One review, requests that only publish, and the WebSocket writers, which
\* connect before the first event and of which the first may fall behind; the
\* channel takes up to MaxOverrun events more than it holds.
NextLag ==
    \/ StoreSteps({1}, {TRUE}) \/ Tails({1})
    \/ next_review = 0 /\ StartCreateReview(1, 1, TRUE)
    \/ GetThreads(1)
    \/ ws_tx < Capacity + MaxOverrun /\ OthersKeepUp /\ StartRequestRevision(1, 1)
    \/ \E w \in Writers : ws_tx = 0 /\ Subscribe(w)
    \/ \E w \in Writers : Recv(w)
    \/ \E w \in Writers : ClientCloses(w)

SpecLag == Init /\ [][NextLag]_vars

\* The presence tracker driven directly, as state.rs's tests drive it; the
\* runtime wakes a sleeping task whose time has come.
NextPresence == Tracker(ReviewIds)

SpecPresence ==
    Init /\ [][NextPresence]_vars /\ \A id \in ReviewIds : WF_vars(GraceExpiry(id))

(***************************************************************************)
(* Properties                                                              *)
(***************************************************************************)
Done(h) == req[h].pc = "done"

\* C1: for every review, get_revisions returns the revisions in ascending
\* order with revision_numbers exactly 1..len: no gap and no duplicate, also
\* when two create_revision calls on the same review overlap.
C1_RevisionNumbers ==
    \A id \in DOMAIN state.reviews :
        LET revs == get_revisions(state, id)
        IN /\ Len(revs) = Cardinality(RevisionsOf(state, id))
           /\ \A i \in 1..Len(revs) : revs[i].revision_number = i

\* A CreateRevision request that compared against revision 1 has been given
\* number 3: another create_revision on the same review came in between.
C1_Witness ==
    \E h \in Slots :
        /\ req[h].kind = "CreateRevision"
        /\ req[h].seen = 1
        /\ req[h].rev_no = 3
        /\ Len(get_revisions(state, req[h].rid)) = 3

\* C2: in every state another request can observe (the lock is free), every
\* review in the store has at least one revision.
C2_ReviewHasRevision ==
    lock = 0 => \A id \in DOMAIN state.reviews : RevisionsOf(state, id) # {}

\* C3: every thread and every revision names a review present in the store,
\* and a delete_review or delete_closed_reviews call removes nothing but the
\* reviews it deletes and their children.
NoDangling(s) ==
    /\ \A t \in DOMAIN s.threads : s.threads[t].review_id \in DOMAIN s.reviews
    /\ \A r \in DOMAIN s.revisions : s.revisions[r].review_id \in DOMAIN s.reviews

KeptBut(old, new, gone) ==
    /\ \A id \in DOMAIN old.reviews \ gone :
          id \in DOMAIN new.reviews /\ new.reviews[id] = old.reviews[id]
    /\ \A t \in DOMAIN old.threads :
          old.threads[t].review_id \notin gone =>
              t \in DOMAIN new.threads /\ new.threads[t] = old.threads[t]
    /\ \A r \in DOMAIN old.revisions :
          old.revisions[r].review_id \notin gone =>
              r \in DOMAIN new.revisions /\ new.revisions[r] = old.revisions[r]

DeleteKeepsOthers ==
    \A h \in Slots :
        req[h].pc = "idle" =>
            /\ req'[h].kind = "DeleteReview" => KeptBut(state, state', {req'[h].rid})
            /\ req'[h].kind = "DeleteClosedReviews" => KeptBut(state, state', closed_ids(state))

C3_NoDanglingChildren == [](NoDangling(state)) /\ [][DeleteKeepsOthers]_vars

\* delete_review has removed one review and its children while the other
\* review keeps its thread and its revision.
C3_Witness ==
    \E h \in Slots :
        /\ req[h].kind = "DeleteReview"
        /\ req[h].phase = "rename"
        /\ next_review = 2
        /\ Cardinality(DOMAIN state.reviews) = 1
        /\ next_revision = 2
        /\ Cardinality(DOMAIN state.revisions) = 1
        /\ DOMAIN state.threads # {}

\* The store calls whose effect the events of a request announce.
Announced(r) ==
    CASE r.kind = "CreateReview" -> {"create_review", "create_revision"}
      [] r.kind = "UpdateReviewStatus" -> {"update_review_status"}
      [] r.kind = "DeleteReview" -> {"delete_review"}
      [] r.kind = "DeleteClosedReviews" -> {"delete_closed_reviews"}
      [] r.kind = "CreateThread" -> {"create_thread"}
      [] r.kind = "AddComment" -> {"add_comment"}
      [] r.kind = "UpdateThreadStatus" -> {"update_thread_status"}
      [] OTHER -> {}

ThreadEvent(kind) ==
    CASE kind = "CreateThread" -> "ThreadCreated"
      [] kind = "AddComment" -> "CommentAdded"
      [] kind = "UpdateThreadStatus" -> "ThreadStatusChanged"

\* C5: a CreateThread, AddComment or UpdateThreadStatus request that answers
\* Ok has published exactly one event of its type, carrying the id of the
\* review that owns the thread; one that answers an error has published none.
C5_OneEventPerSuccess ==
    \A h \in Slots :
        (Done(h) /\ req[h].kind \in {"CreateThread", "AddComment", "UpdateThreadStatus"}) =>
            IF req[h].res = "Ok"
            THEN /\ Len(req[h].pub) = 1
                 /\ req[h].pub[1].event_type = ThreadEvent(req[h].kind)
                 /\ req[h].tid \in DOMAIN state.threads =>
                        req[h].pub[1].review_id = state.threads[req[h].tid].review_id
            ELSE req[h].pub = <<>>

\* C6: a CreateRevision request that answers Ok has published exactly one
\* RevisionCreated event for its review; a rejected one has published none.
C6_RevisionCreatedPublished ==
    \A h \in Slots :
        (Done(h) /\ req[h].kind = "CreateRevision") =>
            IF req[h].res = "Ok"
            THEN req[h].pub = <<Event("RevisionCreated", req[h].rid)>>
            ELSE req[h].pub = <<>>

\* The comparison of the CreateRevision request in slot h takes place.
Compares(h) ==
    /\ req[h].pc = "get_latest_revision"
    /\ req'[h].pc \in {"done", "create_revision"}

Rejected(r) == r.pc = "done" /\ r.res = "BadRequest" /\ r.msg = NoChangesMsg

\* The latest revision of a review, as a sequence of at most one element.
Latest(s, id) ==
    LET revs == {s.revisions[r] : r \in RevisionsOf(s, id)}
    IN IF revs = {} THEN <<>>
       ELSE <<CHOOSE x \in revs : \A y \in revs : y.revision_number <= x.revision_number>>

\* Structural identity as C7 words it: same set of effective paths, same
\* hunk count, matching hunks equal field by field and line by line.
StructurallyIdentical(a, b) ==
    /\ {EffectivePath(a[i]) : i \in DOMAIN a} = {EffectivePath(b[i]) : i \in DOMAIN b}
    /\ FlatHunks(a) = FlatHunks(b)

\* The CreateRevision request in slot h inserts its revision.
Inserts(h) ==
    /\ req[h].kind = "CreateRevision"
    /\ req[h].pc = "create_revision"
    /\ req[h].phase = "call"
    /\ req'[h].phase = "rename"

\* The CreateRevision request in slot h finds its review gone at create_revision.
Refused(h) ==
    /\ req[h].kind = "CreateRevision"
    /\ req[h].pc = "create_revision"
    /\ req[h].phase = "call"
    /\ req'[h].pc = "done"
    /\ req[h].rid \notin DOMAIN state.reviews

\* C7: CreateRevision answers BadRequest "no changes detected since last
\* revision", the store unchanged, exactly when the review has a latest
\* revision with as many files as the fresh file list and the two lists are
\* structurally identical; otherwise it goes on to create_revision, which
\* inserts the fresh file list under the review's highest number plus one,
\* or answers 404 when the review has been deleted meanwhile.
C7_Step ==
    \A h \in Slots :
        /\ Compares(h) =>
              LET latest == Latest(state, req[h].rid)
                  same == /\ latest # <<>>
                          /\ Len(latest[1].files) = Len(req[h].files)
                          /\ StructurallyIdentical(latest[1].files, req[h].files)
              IN /\ Rejected(req'[h]) <=> same
                 /\ Rejected(req'[h]) => state' = state /\ disk' = disk
                 /\ ~Rejected(req'[h]) => req'[h].pc = "create_revision"
        /\ Inserts(h) =>
              LET latest == Latest(state, req[h].rid)
                  id == req'[h].rev_id
              IN /\ id \notin DOMAIN state.revisions
                 /\ DOMAIN state'.revisions = DOMAIN state.revisions \cup {id}
                 /\ state'.revisions[id].review_id = req[h].rid
                 /\ state'.revisions[id].files = req[h].files
                 /\ state'.revisions[id].revision_number =
                        IF latest = <<>> THEN 1 ELSE latest[1].revision_number + 1
                 /\ req'[h].rev_no = state'.revisions[id].revision_number
        /\ Refused(h) =>
              /\ StatusCode(req'[h].res) = 404
              /\ state' = state
              /\ disk' = disk

Persists(h) == req[h].phase = "rename" /\ lock = h /\ lock' = 0 /\ faults' = faults

\* C8: a JsonFileStore constructed from the snapshot file holds the state the
\* running store holds, from the moment a mutating operation has persisted
\* until the next mutating operation: memory changes only under the lock or
\* together with a failed write.
C8_Step ==
    /\ \A h \in Slots : Persists(h) => LoadState(disk') = state'
    /\ (lock = 0 /\ lock' = 0 /\ faults' = faults) => (state' = state /\ disk' = disk)

C8_RestartAfterPersist == [][C8_Step]_vars

\* add_comment has persisted: the snapshot file holds the thread with both
\* comments, as memory does.
C8_Witness ==
    \E h \in Slots :
        /\ "add_comment" \in req[h].on_disk
        /\ lock = 0
        /\ \E t \in DOMAIN state.threads : Len(state.threads[t].comments) = 2
        /\ LoadState(disk) = state

\* C8 as stated: after every operation, restarting from the file yields the
\* state held in memory.
C8_AsStated == lock = 0 => LoadState(disk) = state

\* C9: the snapshot file is absent or a complete document, and it changes
\* only when a store method that holds the lock renames over it the
\* serialization of the state then held in memory.
C9_Step ==
    disk' # disk =>
        /\ lock # 0
        /\ req[lock].phase = "rename"
        /\ state' = state
        /\ disk' = CompleteFile(ToJson(state))

C9_SnapshotAtomic == [](disk = NoFile \/ (disk.exists /\ disk.complete)) /\ [][C9_Step]_vars

\* The process died between persist's write and its rename: path.tmp holds a
\* complete document that the restarted store did not load.
C9_Witness ==
    /\ faults = 1
    /\ lock = 0
    /\ \A h \in Slots : req[h].pc = "idle"
    /\ tmp.exists /\ tmp.complete
    /\ state = LoadState(disk)
    /\ LoadState(tmp) # state

\* The store method each handler calls first.
FirstCall(kind) ==
    CASE kind = "CreateReview" -> "create_review"
      [] kind = "UpdateReviewStatus" -> "update_review_status"
      [] kind = "DeleteReview" -> "delete_review"
      [] kind = "DeleteClosedReviews" -> "delete_closed_reviews"
      [] kind = "CreateThread" -> "create_thread"
      [] kind = "AddComment" -> "add_comment"
      [] kind = "UpdateThreadStatus" -> "update_thread_status"

\* The store call of slot h returns PersistenceError.
PersistFails(h) == req[h].res = "none" /\ req'[h].res = "Internal"

\* C10: when persist's write or rename fails, the request answers 500
\* (PersistenceError), has published nothing, the mutation is in memory, and
\* the snapshot file is as it was.
C10_Step ==
    \A h \in Slots :
        PersistFails(h) =>
            LET op == IF req[h].pc = "idle" THEN FirstCall(req'[h].kind) ELSE req[h].pc
            IN /\ faults' = faults + 1
               /\ req'[h].pc = "done"
               /\ StatusCode(req'[h].res) = 500
               /\ req'[h].pub = <<>>
               /\ op \in req'[h].in_mem
               /\ Effect(op, req'[h], state')
               /\ disk' = disk

C10_PersistFailure == [][C10_Step]_vars

\* add_comment's persist has failed: the request answered 500 and the comment
\* is in memory but not in the file.
C10_Witness ==
    \E h \in Slots :
        /\ req[h].kind = "AddComment"
        /\ Done(h)
        /\ req[h].res = "Internal"
        /\ Effect("add_comment", req[h], state)
        /\ ~Effect("add_comment", req[h], LoadState(disk))

(***************************************************************************)
(* The presence tracker, read off its trace                                *)
(***************************************************************************)
Registered(i, id) == trace[i] = TraceEntry("register", id, TRUE)
Deregistered(i, id) == trace[i] = TraceEntry("deregister", id, FALSE)
Expired(i, id) == trace[i] = TraceEntry("expire", id, FALSE)
Sent(i, id, connected) == i \in DOMAIN trace /\ trace[i] = TraceEntry("event", id, connected)

\* Before entry i, register had been called for id and no disconnect published since.
ConnectedBefore(i, id) ==
    \E j \in 1..(i - 1) :
        /\ Registered(j, id)
        /\ \A k \in j..(i - 1) : ~Sent(k, id, FALSE)

\* What the trace says about one review.
Of(id) == SelectSeq(trace, LAMBDA e : e.id = id)

\* The events the tracker sent for one review, as the `connected` of each.
EventsFor(id) ==
    LET events == SelectSeq(trace, LAMBDA e : e.id = id /\ e.op = "event")
    IN [i \in DOMAIN events |-> events[i].connected]

\* The calls and expiries of one review.
StepsFor(id) ==
    LET steps == SelectSeq(trace, LAMBDA e : e.id = id /\ e.op # "event")
    IN [i \in DOMAIN steps |-> steps[i].op]

\* A deregister of a connected review at i, answered by a register at j
\* before the task woke.
Cancelled(i, j, id) ==
    /\ i < j
    /\ Deregistered(i, id)
    /\ ConnectedBefore(i, id)
    /\ Registered(j, id)
    /\ \A k \in i..j : ~Expired(k, id)

\* C11: a register that follows a deregister of a connected review before the
\* grace timer fires cancels the pending disconnect: the register publishes
\* no second connected:true, the timer of that deregister never fires (no
\* connected:false is published unless deregister is called again), and
\* is_connected is true as long as no disconnect has been published.
C11_RegisterCancelsDisconnect ==
    \A id \in ReviewIds :
        /\ \A i, j \in DOMAIN trace :
              Cancelled(i, j, id) =>
                  /\ ~Sent(j + 1, id, TRUE)
                  /\ \A k \in (j + 1)..Len(trace) :
                        (Expired(k, id) \/ Sent(k, id, FALSE)) =>
                            \E m \in (j + 1)..(k - 1) : Deregistered(m, id)
        /\ (\E j \in DOMAIN trace :
                Registered(j, id) /\ \A k \in j..Len(trace) : ~Sent(k, id, FALSE))
           => is_connected(agent_presence, id)

\* register; deregister; register, with a step of the tracker after it.
C11_Witness ==
    \E id \in ReviewIds, i \in DOMAIN trace :
        /\ i + 1 \in DOMAIN trace
        /\ Cancelled(i, i + 1, id)
        /\ Len(trace) > i + 1
        /\ agent_presence[id].handle = "none"

\* The entries of the trace about id: after a deregister of a connected review
\* comes the expiry with its one connected:false, or another call.
DisconnectsOnce(id) ==
    LET t == Of(id)
    IN \A i \in DOMAIN t :
          /\ (t[i].op = "expire" /\ i > 1 /\ t[i - 1].op = "deregister"
                /\ \E j \in 1..(i - 1) :
                      /\ t[j].op = "register"
                      /\ \A k \in j..(i - 1) : t[k] # TraceEntry("event", id, FALSE))
             => /\ i < Len(t)
                /\ t[i + 1] = TraceEntry("event", id, FALSE)
                /\ (i + 1 < Len(t) => t[i + 2] # TraceEntry("event", id, FALSE))
          /\ (t[i] = TraceEntry("event", id, FALSE) => i > 1 /\ t[i - 1].op = "expire")

\* C12: after deregister of a connected review is_connected stays true until
\* the grace timer fires; the timer does fire unless a register cancels it, the
\* review is then disconnected and exactly one connected:false is published; a
\* following register publishes connected:true again, so that register;
\* deregister; expiry; register publishes connect, disconnect, connect.
C12_DisconnectAfterGrace ==
    /\ [](\A id \in ReviewIds :
            /\ DisconnectsOnce(id)
            /\ (agent_presence[id].handle = "sleeping"
                  /\ (\E i \in DOMAIN trace : ConnectedBefore(i, id) /\ Deregistered(i, id)
                         /\ \A k \in i..Len(trace) : ~Sent(k, id, FALSE))
                => is_connected(agent_presence, id))
            /\ (\A i \in DOMAIN trace : Sent(i, id, FALSE) /\ (\A k \in i..Len(trace) : ~Registered(k, id))
                => ~is_connected(agent_presence, id))
            /\ (StepsFor(id) = <<"register", "deregister", "expire", "register">>
                => EventsFor(id) = <<TRUE, FALSE, TRUE>>))
    /\ \A id \in ReviewIds :
          (is_connected(agent_presence, id) /\ agent_presence[id].handle = "sleeping")
              ~> (~is_connected(agent_presence, id) \/ agent_presence[id].handle = "none")

C12_Witness ==
    \E id \in ReviewIds :
        /\ StepsFor(id) = <<"register", "deregister", "expire", "register">>
        /\ EventsFor(id) = <<TRUE, FALSE, TRUE>>
        /\ is_connected(agent_presence, id)

\* C13: consecutive register calls for a review publish exactly one
\* connected:true, on the call that finds the review disconnected; a call that
\* finds it connected publishes nothing; is_connected is true after each.
C13_RegisterIdempotent ==
    \A id \in ReviewIds :
        /\ \A i \in DOMAIN trace :
              /\ Registered(i, id) => (Sent(i + 1, id, TRUE) <=> ~ConnectedBefore(i, id))
              /\ Sent(i, id, TRUE) => i > 1 /\ Registered(i - 1, id)
        /\ (Len(trace) > 0 /\ (Registered(Len(trace), id) \/
               (Sent(Len(trace), id, TRUE) /\ Registered(Len(trace) - 1, id)))
            => is_connected(agent_presence, id))

\* register; register; register for one review.
C13_Witness ==
    \E id \in ReviewIds :
        /\ StepsFor(id) = <<"register", "register", "register">>
        /\ EventsFor(id) = <<TRUE>>

(***************************************************************************)
(* The agent status map                                                    *)
(***************************************************************************)
\* The entries of thread ids other than t are the same in both maps.
SameButFor(old, new, t) ==
    \A u \in (DOMAIN old \cup DOMAIN new) \ {t} :
        u \in DOMAIN old /\ u \in DOMAIN new /\ old[u] = new[u]

\* The AddComment request in slot h, its comment stored, resets the status.
Clears(h) ==
    /\ req[h].kind = "AddComment"
    /\ req[h].pc = "clear_agent_status"
    /\ req'[h].pc # "clear_agent_status"

\* The SetAgentStatus request in slot h inserts its status.
Sets(h) ==
    /\ req[h].kind = "SetAgentStatus"
    /\ req[h].pc = "set_agent_status"
    /\ req'[h].pc = "publish"

\* The AddComment request in slot h leaves its store call with Ok.
CommentStored(h) ==
    /\ req[h].kind = "AddComment"
    /\ req[h].pc = "add_comment"
    /\ req'[h].pc # "add_comment"
    /\ req'[h].res = "none"

\* C14: an AddComment whose store call succeeded, whatever its author type,
\* next removes the thread's entry from the AgentStatus map and leaves the
\* entries of all other threads as they were, so that list_threads reports no
\* agent_status for the thread; only SetAgentStatus puts an entry back.
C14_Step ==
    /\ \A h \in Slots :
          /\ CommentStored(h) => req'[h].pc = "clear_agent_status"
          /\ Clears(h) =>
                /\ req[h].tid \notin DOMAIN agent_status'
                /\ SameButFor(agent_status, agent_status', req[h].tid)
                /\ \A id \in DOMAIN state'.reviews :
                      req[h].tid \in ThreadsOf(state', id) =>
                          list_threads(state', agent_status', id)[req[h].tid] = "null"
    /\ \A t \in ThreadIds :
          (t \notin DOMAIN agent_status /\ t \in DOMAIN agent_status') =>
              \E h \in Slots : Sets(h) /\ req[h].tid = t

C14_CommentClearsAgentStatus == [][C14_Step]_vars

\* An agent's comment has just reset thread t's status while the other thread keeps its own.
C14_Witness ==
    \E h \in Slots, u \in ThreadIds :
        /\ req[h].kind = "AddComment"
        /\ req[h].author = "Agent"
        /\ req[h].pc = "get_thread"
        /\ req[h].tid # u
        /\ req[h].tid \notin DOMAIN agent_status
        /\ u \in DOMAIN agent_status
        /\ req[h].tid \in DOMAIN state.threads

\* The SetAgentStatus request in slot h arrives and finds no such thread.
UnknownThread(h) ==
    /\ req[h].pc = "idle"
    /\ req'[h].kind = "SetAgentStatus"
    /\ req'[h].tid \notin DOMAIN state.threads

\* The SetAgentStatus request in slot h sends its event and answers.
Acknowledges(h) ==
    /\ req[h].kind = "SetAgentStatus"
    /\ req[h].pc = "publish"
    /\ req'[h].pc = "done"

\* C15: SetAgentStatus on an existing thread sets the thread's AgentStatus to
\* the requested value, whatever it was, publishes exactly one
\* ThreadAcknowledged with the thread id and that status, answers Ok and
\* changes nothing in the store or its file; on an unknown thread it answers
\* 404, leaves the map as it is and publishes nothing.
C15_Step ==
    \A h \in Slots :
        /\ Sets(h) =>
              /\ req[h].tid \in DOMAIN agent_status'
              /\ agent_status'[req[h].tid] = req[h].agent
              /\ SameButFor(agent_status, agent_status', req[h].tid)
              /\ state' = state /\ disk' = disk
        /\ Acknowledges(h) =>
              /\ req'[h].pub = <<Acknowledged(req[h].ev_review, req[h].tid, req[h].agent)>>
              /\ req'[h].res = "Ok"
              /\ agent_status' = agent_status
              /\ state' = state /\ disk' = disk
        /\ UnknownThread(h) =>
              /\ req'[h].pc = "done"
              /\ StatusCode(req'[h].res) = 404
              /\ req'[h].pub = <<>>
              /\ agent_status' = agent_status
              /\ state' = state /\ disk' = disk
        /\ (req'[h].kind = "SetAgentStatus" /\ req'[h].pc = "done" /\ req[h].pc # "done")
              => Acknowledges(h) \/ UnknownThread(h)

C15_SetAgentStatus == [][C15_Step]_vars

\* A SetAgentStatus(Working) has answered Ok: the map holds Working, one event was sent.
C15_Witness ==
    \E h \in Slots :
        /\ req[h].kind = "SetAgentStatus"
        /\ Done(h)
        /\ req[h].res = "Ok"
        /\ req[h].agent = "Working"
        /\ req[h].tid \in DOMAIN agent_status
        /\ agent_status[req[h].tid] = "Working"
        /\ Len(req[h].pub) = 1

(***************************************************************************)
(* The event bus and the WebSocket writers                                 *)
(***************************************************************************)
\* Events the handler in slot h sends in this step.
PubBy(h) ==
    IF req[h].pc = "publish" /\ req'[h].pc = "done"
    THEN Len(req'[h].pub) - Len(req[h].pub) ELSE 0

\* Events the tracker sends in this step.
TrackerSends == Cardinality({i \in DOMAIN trace' \ DOMAIN trace : trace'[i].op = "event"})

\* Writer w forwards an event to its client in this step.
Forwards(w) ==
    /\ ws_rx[w].pc = "recv"
    /\ ws_rx'[w].pc = "recv"
    /\ ws_rx'[w].last # ws_rx[w].last

\* Writer w is told Lagged(n) in this step.
Lags(w) ==
    /\ ws_rx[w].pc = "recv"
    /\ ws_rx'[w] # ws_rx[w]
    /\ ws_rx'[w] # [ws_rx[w] EXCEPT !.open = FALSE]
    /\ ws_tx - ws_rx[w].next > Capacity

\* Writer w's handle_socket returns in this step.
Ends(w) == ws_rx[w].pc = "recv" /\ ws_rx'[w].pc # "recv"

\* Writer w's handle_socket starts in this step.
Connects(w) == ws_rx[w].pc # "recv" /\ ws_rx'[w].pc = "recv"

\* C16: a writer forwards the events in publication order, each at most once
\* and none left out, and only events the channel accepted after the writer
\* subscribed; an event sent while no Receiver exists is not kept by the
\* channel, and a writer that subscribes later starts behind it.
C16_Step ==
    /\ \A w \in Writers :
          /\ Forwards(w) =>
                /\ ws_rx'[w].last > ws_rx[w].last
                /\ ws_rx'[w].last > ws_rx[w].since
                /\ ws_rx'[w].last <= ws_tx
                /\ ws_rx'[w].last = (IF ws_rx[w].last = 0 THEN ws_rx[w].since ELSE ws_rx[w].last) + 1
          /\ Connects(w) => ws_rx'[w].since = ws_tx /\ ws_rx'[w].last = 0
    /\ \A h \in Slots :
          PubBy(h) > 0 =>
              ws_tx' = ws_tx + (IF \E w \in Writers : ws_rx[w].pc = "recv" THEN PubBy(h) ELSE 0)
    /\ TrackerSends > 0 =>
          ws_tx' = ws_tx + (IF \E w \in Writers : ws_rx[w].pc = "recv" THEN TrackerSends ELSE 0)

C16_InOrderAfterSubscription ==
    /\ [](\A w \in Writers :
            ws_rx[w].pc = "recv" =>
                /\ ws_rx[w].since <= ws_rx[w].next
                /\ ws_rx[w].next <= ws_tx
                /\ (ws_rx[w].last = 0 \/ ws_rx[w].since < ws_rx[w].last))
    /\ [][C16_Step]_vars

\* One writer has forwarded the first event; another, which subscribed after
\* that event, has forwarded the one that followed and nothing older.
C16_Witness ==
    \E w, v \in Writers :
        /\ ws_rx[w].pc = "recv" /\ ws_rx[w].since = 0 /\ ws_rx[w].last >= 2
        /\ ws_rx[v].pc = "recv" /\ ws_rx[v].since >= 1 /\ ws_rx[v].last = ws_rx[v].since + 1

\* C17: a writer that is at most Capacity events behind loses none: its next
\* recv yields the next event.  One that is more than Capacity behind is told
\* Lagged(N), N the number of events overwritten at its position, resumes at
\* the oldest event still held and never forwards an overwritten one.
C17_Step ==
    \A w \in Writers :
        LET writer == ws_rx[w]
            behind == ws_tx - writer.next
        IN /\ (Forwards(w) \/ Ends(w)) => behind >= 1 /\ behind <= Capacity
           /\ Forwards(w) =>
                 /\ ws_rx'[w].last = writer.next + 1
                 /\ ws_rx'[w].next = writer.next + 1
                 /\ ws_rx'[w].lagged = writer.lagged
           /\ Lags(w) =>
                 /\ ws_rx'[w].pc = "recv"
                 /\ ws_rx'[w].lagged = behind - Capacity
                 /\ ws_rx'[w].next = ws_tx - Capacity
                 /\ ws_rx'[w].last = writer.last
           /\ (writer.pc = "recv" /\ ws_rx'[w].pc = "recv") => ws_rx'[w].next >= writer.next

C17_LagSkipsOverwritten ==
    /\ [](\A w \in Writers : ws_rx[w].last <= ws_rx[w].next /\ ws_rx[w].next <= ws_tx)
    /\ [][C17_Step]_vars

\* A writer was told it lagged and has since forwarded the oldest event still held.
C17_Witness ==
    /\ ws_tx > Capacity
    /\ ws_rx[1].pc = "recv"
    /\ ws_rx[1].lagged > 0
    /\ ws_rx[1].next = ws_tx - Capacity + 1
    /\ ws_rx[1].last = ws_rx[1].next

\* The handler in slot h runs its sends and answers.
Publishing(h) == req[h].pc = "publish" /\ req'[h].pc = "done"

\* C18: a handler at its send always can take the step, whatever Receivers
\* exist and wherever they stand; the step's answer and events are those the
\* request and the store determine, it changes neither the store, the agent
\* status, the presence state nor any writer, and with no Receiver the send
\* is ignored; the tracker's register and expiry likewise.
C18_Step ==
    /\ \A h \in Slots :
          Publishing(h) =>
              /\ \E order \in Orders(req[h].deleted) :
                    req'[h] = Respond([req[h] EXCEPT !.pub = @ \o EventsOf(req[h], order)],
                                      "Ok", "")
              /\ UNCHANGED <<state, disk, agent_status, agent_presence, ws_rx>>
              /\ ((\A w \in Writers : ws_rx[w].pc # "recv") => ws_tx' = ws_tx)
    /\ \A id \in ReviewIds :
          (Len(trace') > Len(trace) /\ trace'[Len(trace) + 1] = TraceEntry("register", id, TRUE))
              => /\ is_connected(agent_presence', id)
                 /\ (TrackerSends = 1 <=> ~is_connected(agent_presence, id))
                 /\ UNCHANGED <<state, disk, agent_status, req, ws_rx>>
                 /\ ((\A w \in Writers : ws_rx[w].pc # "recv") => ws_tx' = ws_tx)

C18_PublishNeverWaits ==
    /\ [](\A h \in Slots : req[h].pc = "publish" => ENABLED Publish(h))
    /\ [][C18_Step]_vars

\* A handler has published and answered Ok although no Receiver ever existed.
C18_Witness ==
    \E h \in Slots :
        /\ Done(h)
        /\ req[h].res = "Ok"
        /\ req[h].pub # <<>>
        /\ ws_tx = 0
        /\ \A w \in Writers : ws_rx[w].pc = "none"

\* C19: a writer told Lagged stays in its loop with its client connected and
\* forwards the events that follow; a writer returns only when the send to its
\* client fails; when one returns, the channel, the other writers, the
\* requests and the store are as before, and handlers go on answering Ok.
C19_Step ==
    /\ \A w \in Writers :
          /\ Lags(w) => ws_rx'[w].pc = "recv" /\ ws_rx'[w].open = ws_rx[w].open
          /\ Ends(w) =>
                /\ ~ws_rx[w].open
                /\ ws_rx[w].next < ws_tx
                /\ \A v \in Writers \ {w} : ws_rx'[v] = ws_rx[v]
                /\ UNCHANGED <<ws_tx, req, state, disk, agent_status, agent_presence>>
    /\ \A h \in Slots : Publishing(h) => req'[h].res = "Ok"

C19_WriterSurvivesLag == [][C19_Step]_vars

\* The first writer was told it lagged and went on forwarding; the second has
\* returned after its client went away.
C19_Witness ==
    /\ ws_rx[1].pc = "recv"
    /\ ws_rx[1].lagged > 0
    /\ ws_rx[1].last > ws_tx - Capacity
    /\ ws_rx[2].pc = "ended"
    /\ req[1].kind = "RequestRevision" /\ Done(1) /\ req[1].res = "Ok"

(***************************************************************************)
(* Reads after delete_review                                               *)
(***************************************************************************)
\* Every read of review R fails with ReviewNotFound in State s, and every
\* thread of `threads` is unknown to get_thread, add_comment and
\* update_thread_status.
NotFoundAfterDelete(s, R, threads) ==
    /\ \A method \in ReadMethods, n \in 0..MaxRevisions + 1 :
          Read(method, s, R, n) = "ReviewNotFound"
    /\ \A t \in threads :
          /\ get_thread(s, t) = "ThreadNotFound"
          /\ \A op \in {"add_comment", "update_thread_status"} :
                Precondition(op, [Idle EXCEPT !.tid = t], s) = "ThreadNotFound"

\* Neither review R nor a thread or revision of it is in State s.
Absent(s, R) == R \notin DOMAIN s.reviews /\ ThreadsOf(s, R) = {} /\ RevisionsOf(s, R) = {}

\* Slot h's request calls delete_review in this step.
CallsDelete(h) == req[h].pc = "idle" /\ req'[h].kind = "DeleteReview"

\* Slot h's delete_review returns Ok in this step.
DeleteReturnsOk(h) ==
    /\ req[h].pc = "delete_review"
    /\ req[h].phase = "rename"
    /\ req'[h].pc = "publish"

\* C20: from the moment delete_review(R) has removed R, and still when it
\* returns Ok and ever after, get_review, get_threads, get_revisions,
\* get_revision and get_latest_revision on R return ReviewNotFound and
\* get_thread, add_comment and update_thread_status on each thread R had return
\* ThreadNotFound; delete_review of an id the store does not hold returns
\* ReviewNotFound (404) and leaves memory, the files and the bus as they were.
C20_Step ==
    /\ \A h \in Slots :
          /\ CallsDelete(h) =>
                LET R == req'[h].rid
                IN IF R \in DOMAIN state.reviews
                   THEN NotFoundAfterDelete(state', R, ThreadsOf(state, R))
                   ELSE /\ Precondition("delete_review", req'[h], state) = "ReviewNotFound"
                        /\ req'[h].pc = "done"
                        /\ StatusCode(req'[h].res) = 404
                        /\ req'[h].pub = <<>>
                        /\ UNCHANGED <<state, disk, tmp, lock, agent_status, ws_tx>>
          /\ DeleteReturnsOk(h) =>
                /\ NotFoundAfterDelete(state', req[h].rid, {})
                /\ Absent(state', req[h].rid)
                /\ Absent(LoadState(disk'), req[h].rid)
    \* a review that is gone from memory and from the file does not come back,
    \* nor does a thread, and a thread never moves to another review
    /\ \A R \in ReviewIds :
          (R <= next_review /\ Absent(state, R) /\ Absent(LoadState(disk), R))
              => Absent(state', R) /\ Absent(LoadState(disk'), R)
    /\ \A t \in ThreadIds :
          /\ (t <= next_thread /\ t \notin DOMAIN state.threads
                               /\ t \notin DOMAIN LoadState(disk).threads)
                => t \notin DOMAIN state'.threads /\ t \notin DOMAIN LoadState(disk').threads
          /\ (t \in DOMAIN state.threads /\ t \in DOMAIN state'.threads)
                => state'.threads[t].review_id = state.threads[t].review_id

C20_DeletedReviewNotFound ==
    /\ [](\A h \in Slots :
            (req[h].kind = "DeleteReview" /\ req[h].res = "Ok") =>
                /\ NotFoundAfterDelete(state, req[h].rid, {})
                /\ Absent(state, req[h].rid))
    /\ [][C20_Step]_vars

\* delete_review has returned Ok for the only review, which had a thread and a
\* revision: the store is empty, in memory and in the file.
C20_Witness ==
    \E h \in Slots :
        /\ req[h].kind = "DeleteReview" /\ Done(h) /\ req[h].res = "Ok"
        /\ faults = 0
        /\ next_review = 1 /\ next_thread = 1 /\ next_revision = 1
        /\ state = EmptyState
        /\ LoadState(disk) = EmptyState

(***************************************************************************)
(* delete_closed_reviews                                                   *)
(***************************************************************************)
\* The reviews of State s whose status is Closed.
ClosedIn(s) == {id \in DOMAIN s.reviews : s.reviews[id].status = "Closed"}

\* Slot h's request calls delete_closed_reviews in this step.
CallsDeleteClosed(h) == req[h].pc = "idle" /\ req'[h].kind = "DeleteClosedReviews"

\* C21: delete_closed_reviews removes from memory the reviews that are Closed
\* when it is called, their threads and their revisions, and nothing else;
\* every other review, thread and revision is as it was; the list it returns
\* is that set of ids; with no Closed review it returns the empty list and
\* leaves memory, the snapshot file and path.tmp untouched.
C21_Step ==
    \A h \in Slots :
        /\ CallsDeleteClosed(h) =>
              LET closed == ClosedIn(state)
              IN /\ DOMAIN state'.reviews = DOMAIN state.reviews \ closed
                 /\ DOMAIN state'.threads =
                        {t \in DOMAIN state.threads : state.threads[t].review_id \notin closed}
                 /\ DOMAIN state'.revisions =
                        {r \in DOMAIN state.revisions : state.revisions[r].review_id \notin closed}
                 /\ \A id \in DOMAIN state'.reviews : state'.reviews[id] = state.reviews[id]
                 /\ \A t \in DOMAIN state'.threads : state'.threads[t] = state.threads[t]
                 /\ \A r \in DOMAIN state'.revisions : state'.revisions[r] = state.revisions[r]
                 /\ req'[h].res # "Internal" => req'[h].deleted = closed
                 /\ closed = {} =>
                       /\ req'[h].pc = "publish"
                       /\ req'[h].deleted = {}
                       /\ UNCHANGED <<state, disk, tmp, lock, faults>>
        /\ (req[h].pc = "delete_closed_reviews" /\ req'[h].pc = "publish") =>
              /\ req'[h].deleted = req[h].deleted
              /\ ClosedIn(state') = {}
              /\ LoadState(disk') = state'

C21_DeleteClosedExact == [][C21_Step]_vars

\* delete_closed_reviews has returned the one Closed review while the Open
\* review keeps its revision.
C21_Witness ==
    \E h \in Slots :
        /\ req[h].kind = "DeleteClosedReviews"
        /\ req[h].pc = "publish"
        /\ Cardinality(req[h].deleted) = 1
        /\ \E id \in DOMAIN state.reviews :
              state.reviews[id].status = "Open" /\ RevisionsOf(state, id) # {}

(***************************************************************************)
(* The events of the delete handlers                                       *)
(***************************************************************************)
\* The review ids of the events request r has sent.
PublishedIds(r) == {r.pub[i].review_id : i \in DOMAIN r.pub}

\* C22: a DeleteReview request that answers Ok has sent exactly one
\* ReviewDeleted, for the id it deleted; a DeleteClosedReviews request that
\* answers Ok has sent exactly one ReviewDeleted for each id the store
\* returned and none for a review still in the store; a delete that answers
\* an error (404 for an unknown id) has sent nothing.
C22_DeleteEvents ==
    \A h \in Slots :
        (Done(h) /\ req[h].kind \in {"DeleteReview", "DeleteClosedReviews"}) =>
            IF req[h].res = "Ok"
            THEN LET gone == IF req[h].kind = "DeleteReview" THEN {req[h].rid}
                             ELSE req[h].deleted
                 IN /\ Len(req[h].pub) = Cardinality(gone)
                    /\ PublishedIds(req[h]) = gone
                    /\ \A i \in DOMAIN req[h].pub : req[h].pub[i].event_type = "ReviewDeleted"
                    /\ PublishedIds(req[h]) \cap DOMAIN state.reviews = {}
            ELSE req[h].pub = <<>>

\* One DELETE /api/reviews has deleted two Closed reviews and sent two events.
C22_Witness ==
    \E h \in Slots :
        /\ Done(h) /\ req[h].kind = "DeleteClosedReviews" /\ req[h].res = "Ok"
        /\ Cardinality(req[h].deleted) = 2
        /\ Len(req[h].pub) = 2

(***************************************************************************)
(* request_revision                                                        *)
(***************************************************************************)
\* Slot h's request calls the request_revision handler in this step.
CallsRequestRevision(h) == req[h].pc = "idle" /\ req'[h].kind = "RequestRevision"

\* C23: request_revision answers 404 for an unknown review and 400 for a
\* Closed one, sending nothing in either case; for an Open review it sends one
\* RevisionRequested that carries the review id and no payload field, and
\* answers Ok; no step of the request changes memory, the snapshot file or
\* path.tmp.
C23_Step ==
    \A h \in Slots :
        /\ CallsRequestRevision(h) =>
              LET id == req'[h].rid
              IN IF id \notin DOMAIN state.reviews
                 THEN Done(h)' /\ StatusCode(req'[h].res) = 404 /\ req'[h].pub = <<>>
                 ELSE IF state.reviews[id].status = "Closed"
                 THEN /\ Done(h)'
                      /\ StatusCode(req'[h].res) = 400
                      /\ req'[h].msg = NotOpenMsg
                      /\ req'[h].pub = <<>>
                 ELSE req'[h].pc = "publish" /\ req'[h].res = "none"
        /\ ((req[h].kind = "RequestRevision" \/ req'[h].kind = "RequestRevision")
                /\ req'[h] # req[h])
              => UNCHANGED <<state, disk, tmp, lock, agent_status>>
        /\ (req[h].kind = "RequestRevision" /\ Publishing(h)) =>
              /\ req'[h].res = "Ok"
              /\ req'[h].pub = <<[event_type |-> "RevisionRequested", review_id |-> req[h].rid]>>

C23_RequestRevision ==
    /\ [](\A h \in Slots :
            (Done(h) /\ req[h].kind = "RequestRevision") =>
                /\ req[h].res \in {"Ok", "BadRequest", "NotFound"}
                /\ Len(req[h].pub) = (IF req[h].res = "Ok" THEN 1 ELSE 0))
    /\ [][C23_Step]_vars

\* A revision has been requested of a Closed review and refused with 400.
C23_Witness ==
    \E h \in Slots :
        /\ Done(h) /\ req[h].kind = "RequestRevision"
        /\ req[h].res = "BadRequest"
        /\ req[h].rid \in DOMAIN state.reviews
        /\ state.reviews[req[h].rid].status = "Closed"

(***************************************************************************)
(* Lookup misses of the file handlers                                      *)
(***************************************************************************)
\* Slot h's request calls list_files or get_file_diff in this step.
CallsFiles(h) == req[h].pc = "idle" /\ req'[h].kind \in {"ListFiles", "GetFileDiff"}

\* Review id of State s has a revision numbered n.
HasRevision(s, id, n) ==
    \E r \in RevisionsOf(s, id) : s.revisions[r].revision_number = n

\* C24: a request that names a review, a revision or a thread the store does
\* not hold answers 404; in particular list_files and get_file_diff with
\* ?revision=N on an existing review that has no revision N.
C24_Step ==
    \A h \in Slots :
        /\ CallsFiles(h) =>
              LET id == req'[h].rid
                  revision == req'[h].revision
              IN /\ id \notin DOMAIN state.reviews => StatusCode(req'[h].res) = 404
                 /\ (id \in DOMAIN state.reviews /\ revision # <<>>
                        /\ ~HasRevision(state, id, revision[1]))
                       => StatusCode(req'[h].res) = 404
                 /\ (id \in DOMAIN state.reviews /\ revision = <<>>
                        /\ RevisionsOf(state, id) = {})
                       => StatusCode(req'[h].res) = 404
        /\ (req[h].pc = "idle" /\ req'[h].kind \in {"DeleteReview", "CreateRevision"}
                /\ req'[h].rid \notin DOMAIN state.reviews)
              => StatusCode(req'[h].res) = 404

C24_LookupMissIs404 == [][C24_Step]_vars

(***************************************************************************)
(* A diff that does not parse                                              *)
(***************************************************************************)
\* Slot h's request calls the create_review or create_revision handler with
\* a `git diff` output that parse_diff rejects.
CallsWithUnparsableDiff(h) ==
    /\ req[h].pc = "idle"
    /\ req'[h].kind \in {"CreateReview", "CreateRevision"}
    /\ req'[h].git = ParseFails
    /\ (req'[h].kind = "CreateRevision" => req'[h].rid \in DOMAIN state.reviews)

\* C25: when parse_diff rejects git's output, create_review answers an
\* Internal error and creates neither a review nor a revision, and
\* create_revision answers an error and inserts no revision.
C25_Step ==
    \A h \in Slots :
        CallsWithUnparsableDiff(h) =>
            /\ Done(h)'
            /\ req'[h].res # "Ok"
            /\ req'[h].kind = "CreateReview" => StatusCode(req'[h].res) = 500
            /\ state' = state

C25_ParseErrorIsInternal == [][C25_Step]_vars

(***************************************************************************)
(* The shape of a thread                                                   *)
(***************************************************************************)
\* Slot h's request calls the create_thread handler in this step.
CallsCreateThread(h) == req[h].pc = "idle" /\ req'[h].kind = "CreateThread"

\* a is a prefix of b.
IsPrefix(a, b) == Len(a) <= Len(b) /\ \A i \in DOMAIN a : b[i] = a[i]

\* C26: every thread in the store has line_start <= line_end and at least one
\* comment, and its comments only grow at the end; a CreateThread request
\* whose line_start exceeds its line_end is refused and stores nothing.
C26_Step ==
    /\ \A t \in DOMAIN state.threads \cap DOMAIN state'.threads :
          IsPrefix(state.threads[t].comments, state'.threads[t].comments)
    /\ \A h \in Slots :
          (CallsCreateThread(h) /\ req'[h].thread.line_start > req'[h].thread.line_end) =>
              /\ Done(h)'
              /\ req'[h].res # "Ok"
              /\ state' = state

C26_ThreadShape ==
    /\ [](\A t \in DOMAIN state.threads :
            /\ state.threads[t].line_start <= state.threads[t].line_end
            /\ Len(state.threads[t].comments) >= 1)
    /\ [][C26_Step]_vars

(***************************************************************************)
(* serve --fresh                                                           *)
(***************************************************************************)
\* Review R has been created and is not in the running store, which no call
\* is mutating: it was deleted, or left behind by a start with --fresh.
NotServed(R) == R <= next_review /\ lock = 0 /\ Absent(state, R)

\* C27: a start with --fresh serves an empty store, and a review the running
\* store does not hold, with its threads and revisions, is never served again,
\* neither by this process nor by one started later from the snapshot file.
C27_Step ==
    \A R \in ReviewIds : NotServed(R) => Absent(state', R)

C27_FreshDiscardsSnapshot == [][C27_Step]_vars

(***************************************************************************)
(* wait_for_event's timeout                                                *)
(***************************************************************************)
\* The seconds the call of record w may wait: the caller's timeout_secs, 300
\* when there is none, and never more than 600.
Limit(w) ==
    LET asked == IF w.timeout_secs = <<>> THEN 300 ELSE w.timeout_secs[1]
    IN IF asked <= 600 THEN asked ELSE 600

\* C28: a wait_for_event call has waited at most min(timeout_secs, 600)
\* seconds since it started, 300 when timeout_secs is omitted; an event the
\* filters reject and a Lagged signal leave the seconds counted and the limit
\* as they are; when the limit is reached without a matching event the call
\* returns Ok with timeout: true; it never returns an error while the channel
\* is open.
C28_Step ==
    /\ (wait.pc = "recv" /\ wait'.pc = "recv" /\ wait'.next # wait.next) =>
          /\ wait'.elapsed = wait.elapsed
          /\ wait'.timeout = wait.timeout
    /\ (wait.pc = "recv" /\ wait'.pc = "done") =>
          /\ wait'.elapsed = wait.elapsed
          /\ wait'.res = "Ok"
          /\ wait'.reply = "timeout" <=> wait'.next = wait.next
    /\ (wait.pc = "recv" /\ wait'.pc = "recv") => wait'.elapsed \in {wait.elapsed, wait.elapsed + 1}

C28_WaitTimeout ==
    /\ [](wait.pc # "idle" =>
             /\ wait.timeout = Limit(wait)
             /\ wait.elapsed <= Limit(wait)
             /\ wait.elapsed <= 600
             /\ wait.res # "Err"
             /\ wait.reply = "timeout" => (wait.res = "Ok" /\ wait.elapsed = Limit(wait)))
    /\ [][C28_Step]_vars

\* A call with timeout_secs = 601 has passed over an event its filters reject
\* and has returned timeout: true after 600 seconds.
C28_Witness ==
    /\ wait.pc = "done"
    /\ wait.timeout_secs = <<601>>
    /\ wait.skipped = 1
    /\ wait.reply = "timeout"
    /\ wait.elapsed = 600

(***************************************************************************)
(* Review summaries                                                        *)
(***************************************************************************)
\* The three counts of review R in state s, as the specification words them.
Counts(s, R) ==
    LET mine == ThreadsOf(s, R)
        revs == RevisionsOf(s, R)
        top == CHOOSE r \in revs : \A o \in revs :
                    s.revisions[o].revision_number <= s.revisions[r].revision_number
    IN [thread_count |-> Cardinality(mine),
        open_thread_count |->
            Cardinality({t \in mine : /\ s.threads[t].status = "Open"
                                      /\ s.threads[t].origin # "AgentExplanation"}),
        file_count |-> IF revs = {} THEN 0 ELSE Len(s.revisions[top].files)]

CountsOf(summary) ==
    [thread_count |-> summary.thread_count,
     open_thread_count |-> summary.open_thread_count,
     file_count |-> summary.file_count]

\* Request h is the GET /api/reviews/{id} handler at the store call `pc`.
ReadsSummary(h, pc) == req[h].kind = "GetReview" /\ req[h].pc = pc /\ req[h].phase = "call"

\* C29: in every state list_reviews reports, for each review, thread_count =
\* the number of its threads, open_thread_count = the number of its threads
\* that are Open and whose origin is not AgentExplanation, and file_count =
\* the number of files of its highest-numbered revision (0 without one); and
\* each of the three values the GET /api/reviews/{id} handler computes from a
\* state is the value list_reviews reports for that state.
C29_Step ==
    \A h \in Slots :
        /\ (ReadsSummary(h, "count_threads") /\ req'[h].pc = "count_files") =>
              /\ req'[h].body.thread_count = list_reviews(state)[req[h].rid].thread_count
              /\ req'[h].body.open_thread_count = list_reviews(state)[req[h].rid].open_thread_count
        /\ (ReadsSummary(h, "count_files") /\ req'[h].res = "Ok") =>
              /\ req'[h].body.file_count = list_reviews(state)[req[h].rid].file_count
              /\ req'[h].body.thread_count = req[h].body.thread_count
              /\ req'[h].body.open_thread_count = req[h].body.open_thread_count

C29_Summaries ==
    /\ [](/\ DOMAIN list_reviews(state) = DOMAIN state.reviews
          /\ \A R \in DOMAIN state.reviews : CountsOf(list_reviews(state)[R]) = Counts(state, R))
    /\ [][C29_Step]_vars

\* GET /api/reviews/{id} has answered for a review that has two revisions, of
\* one file and then of two, and one thread, an Open AgentExplanation, while
\* the other review has a thread too; the answer is the summary list_reviews
\* gives.
C29_Witness ==
    \E h \in Slots :
        LET r == req[h]
        IN /\ r.kind = "GetReview" /\ r.pc = "done" /\ r.res = "Ok"
           /\ r.body = [thread_count |-> 1, open_thread_count |-> 0,
                        file_count |-> 2, revision_count |-> 2]
           /\ r.rid \in DOMAIN state.reviews
           /\ CountsOf(list_reviews(state)[r.rid]) = CountsOf(r.body)
           /\ \E t \in ThreadsOf(state, r.rid) :
                state.threads[t].status = "Open" /\ state.threads[t].origin = "AgentExplanation"
           /\ \E t \in DOMAIN state.threads : state.threads[t].review_id # r.rid

(***************************************************************************)
(* Revisions are append-only                                               *)
(***************************************************************************)
\* The revision numbers of review R in state s.
NumbersOf(s, R) == {s.revisions[r].revision_number : r \in RevisionsOf(s, R)}

\* The file list GET /api/reviews/{R}/files answers for revision number n.
FilesOfNumber(s, R, n) ==
    LET r == CHOOSE x \in RevisionsOf(s, R) : s.revisions[x].revision_number = n
    IN FileListEntries(s.revisions[r].files)

\* Request h is a list_files that answers Ok in this step.
ListsFiles(h) ==
    /\ req[h].pc = "idle"
    /\ req'[h].kind = "ListFiles"
    /\ req'[h].pc = "done"
    /\ req'[h].res = "Ok"

\* C30: in every step of a running server a revision that is in the store
\* either stays as it is (number, trigger, message, files, review) or is
\* gone together with its review; a file list request for ?revision=N
\* answers with the files of the review's revision numbered N, whatever
\* revisions were created after it, and one without a selector answers with
\* the revision of the highest number.
C30_Step ==
    /\ \A r \in DOMAIN state.revisions :
          IF r \in DOMAIN state'.revisions
          THEN state'.revisions[r] = state.revisions[r]
          ELSE state.revisions[r].review_id \notin DOMAIN state'.reviews
    /\ \A h \in Slots :
          ListsFiles(h) =>
              LET q == req'[h]
                  n == IF q.revision # <<>> THEN q.revision[1] ELSE Max(NumbersOf(state, q.rid))
              IN /\ n \in NumbersOf(state, q.rid)
                 /\ q.rev_no = n
                 /\ q.body = FilesOfNumber(state, q.rid, n)

LineKinds(hunks) ==
    UNION {{hunks[i].lines[j].kind : j \in DOMAIN hunks[i].lines} : i \in DOMAIN hunks}

\* C31: compute_interdiff(B, H, H) returns hunks without an Added and
\* without a Removed line, for every base text B and hunk list H.
C31_SelfInterdiff ==
    (pure.fn = "compute_interdiff" /\ pure.from_hunks = pure.to_hunks) =>
        LineKinds(pure.result) \subseteq {"Context"}

\* compute_interdiff(B, H, H) has been computed for an H that adds one line
\* and removes another, so that the revision differs from the base.
C31_Witness ==
    /\ pure.fn = "compute_interdiff"
    /\ pure.from_hunks = pure.to_hunks
    /\ {"Added", "Removed"} \subseteq LineKinds(pure.from_hunks)
    /\ reconstruct_from_hunks(pure.base_content, pure.from_hunks) # pure.base_content
    /\ pure.base_content # <<>>
    /\ pure.result = <<>>

(***************************************************************************)
(* Line numbers of parsed hunks                                            *)
(***************************************************************************)
\* The numbers on one side of a hunk's lines, in order: those of the lines
\* of the kinds K, read from field old_line_no or new_line_no by `no`.
SideNumbers(hunk_ls, K, no(_)) ==
    LET side == SelectSeq(hunk_ls, LAMBDA l : l.kind \in K)
    IN [k \in DOMAIN side |-> no(side[k])]

\* The numbers start, start + 1, ... are those of a side.
RunsFrom(start, numbers) == \A k \in DOMAIN numbers : numbers[k] = <<start + k - 1>>

WellNumbered(hunk) ==
    /\ \A k \in DOMAIN hunk.lines :
          LET l == hunk.lines[k]
          IN /\ l.kind = "Added" => l.new_line_no # <<>> /\ l.old_line_no = <<>>
             /\ l.kind = "Removed" => l.old_line_no # <<>> /\ l.new_line_no = <<>>
             /\ l.kind = "Context" => l.old_line_no # <<>> /\ l.new_line_no # <<>>
    /\ RunsFrom(hunk.old_start,
                SideNumbers(hunk.lines, {"Context", "Removed"}, LAMBDA l : l.old_line_no))
    /\ RunsFrom(hunk.new_start,
                SideNumbers(hunk.lines, {"Context", "Added"}, LAMBDA l : l.new_line_no))

\* C32: in every hunk the parser produces, Added lines have new_line_no only,
\* Removed lines old_line_no only and Context lines both, the old-side
\* numbers of its Context and Removed lines are old_start, old_start + 1, ...
\* and the new-side numbers of its Context and Added lines are new_start,
\* new_start + 1, ...
C32_LineNumbers ==
    (pure.fn = "parse_hunks" /\ pure.result.res = "Ok") =>
        \A h \in DOMAIN pure.result.hunks : WellNumbered(pure.result.hunks[h])

\* ---- C33: one lock at a time ----
\* The lock the next step of request r has to take: a store method takes the
\* snapshot lock, three handler steps take the AgentStatus lock, and the write
\* and the rename of persist, the send and the response take none.
Awaited(r) ==
    IF r.phase = "rename" \/ r.pc \in {"idle", "publish", "done"} THEN "none"
    ELSE IF r.pc \in {"clear_agent_status", "set_agent_status", "agent_statuses"}
    THEN "agent_status"
    ELSE "snapshot"

\* The locks request h holds between two of its steps: the AgentStatus and the
\* presence guards never live across an await, the snapshot guard lives across
\* the two awaits of persist.
Held(h) == IF lock = h THEN {"snapshot"} ELSE {}

OneLock ==
    /\ \A h \in Slots : Held(h) # {} => Awaited(req[h]) = "none"
    /\ lock # 0 => req[lock].phase = "rename"

Completes(h) == (req[h].pc # "idle") ~> (req[h].pc = "idle")

\* C33: no request waits for one of the three locks while it holds another (the
\* AgentStatus lock is asked for only after the store call has returned and
\* dropped the snapshot lock; the timer task only ever takes the presence lock),
\* and every request that was started is answered, and every timer task ends.
C33_NoDeadlock ==
    /\ []OneLock
    /\ \A h \in Slots : Completes(h)
    /\ (agent_presence[1].handle = "sleeping") ~> (agent_presence[1].handle # "sleeping")

\* A comment is being persisted by one request (it holds the snapshot lock) while
\* another request waits for the AgentStatus lock and a presence timer sleeps.
C33_Witness ==
    /\ \E h \in Slots : lock = h /\ req[h].kind = "AddComment"
    /\ \E k \in Slots : Awaited(req[k]) = "agent_status"
    /\ agent_presence[1].handle = "sleeping"

\* ---- C34: the order of the events and the order of the store ----
\* Another request that changes the status of thread t has not sent its event yet.
StatusEventPending(k, t) ==
    /\ req[k].kind = "UpdateThreadStatus"
    /\ req[k].tid = t
    /\ req[k].pc \notin {"idle", "done"}

\* Request h sends the last ThreadStatusChanged of the requests in flight.
LastStatusEvent(h) ==
    /\ Publishing(h)
    /\ req[h].kind = "UpdateThreadStatus"
    /\ req[h].tid \in DOMAIN state.threads
    /\ \A k \in Slots \ {h} : ~StatusEventPending(k, req[h].tid)

\* C34: the events of concurrent requests that change the same thread are sent in
\* the order in which the store applied the changes, so the last
\* ThreadStatusChanged event sent once every request has sent its own carries the
\* status the store holds for the thread.
C34_EventOrder ==
    [][\A h \in Slots : LastStatusEvent(h) => req[h].st = state.threads[req[h].tid].status]_vars

\* ---- C35: consecutive revisions ----
\* C35: no review holds two consecutive revisions with structurally identical
\* file lists, also when two CreateRevision requests for the same review run
\* concurrently against the same working tree.
C35_NoRepeatedRevision ==
    \A id \in DOMAIN state.reviews :
        LET revs == get_revisions(state, id)
        IN \A i \in 1..(Len(revs) - 1) : revs[i].files # revs[i + 1].files

\* ---- C36: the presence events of one review ----
\* The payloads of the AgentPresenceChanged events sent for review id, in order.
PresencePayloads(id) ==
    LET sent == SelectSeq(trace, LAMBDA e : e.op = "event" /\ e.id = id)
    IN [i \in DOMAIN sent |-> sent[i].connected]

LastPayload(id) ==
    LET p == PresencePayloads(id) IN IF p = <<>> THEN FALSE ELSE p[Len(p)]

\* C36: for each review the AgentPresenceChanged events alternate connected:true,
\* connected:false, connected:true, ... starting with true, and is_connected
\* always equals the payload of the last of them (false when none was sent).
C36_Alternating ==
    \A id \in ReviewIds :
        LET p == PresencePayloads(id)
        IN /\ \A i \in DOMAIN p : p[i] = (i % 2 = 1)
           /\ is_connected(agent_presence, id) = LastPayload(id)

\* A review's agent connected, was declared gone by its timer, and connected again.
C36_Witness ==
    \E id \in ReviewIds :
        /\ PresencePayloads(id) = <<TRUE, FALSE, TRUE>>
        /\ is_connected(agent_presence, id)

\* ---- C37: events after ReviewDeleted ----
\* A request has sent ReviewDeleted for review id and has not written its response yet.
DeletedEventSent(id) ==
    \E h \in Slots :
        /\ req[h].pc = "done"
        /\ \E i \in DOMAIN req[h].pub : req[h].pub[i] = Event("ReviewDeleted", id)

\* This step sends an event that carries review id: the tracker or its timer task
\* sends an AgentPresenceChanged, or a request sends its events.
SendsFor(id) ==
    \/ \E i \in DOMAIN trace' \ DOMAIN trace : trace'[i].op = "event" /\ trace'[i].id = id
    \/ \E h \in Slots :
          /\ Publishing(h)
          /\ \E i \in DOMAIN req'[h].pub \ DOMAIN req[h].pub : req'[h].pub[i].review_id = id

\* C37: once ReviewDeleted has been sent for a review, no later event carries the
\* review's id, neither from a pending grace timer nor from a request in flight.
C37_SilentAfterDelete ==
    [][\A id \in ReviewIds : DeletedEventSent(id) => ~SendsFor(id)]_vars

\* ---- C38: the event wait_for_event returns ----
\* What the two filters ask for: the review, and one of the names on the wire.
Wanted(event, review_id, event_types) ==
    /\ review_id # <<>> => event.review_id = review_id[1]
    /\ event_types # <<>> =>
          \E i \in DOMAIN event_types[1] : snake_case(event.event_type) = event_types[1][i]

FirstWanted(received, review_id, event_types) ==
    LET hits == {i \in DOMAIN received : Wanted(received[i], review_id, event_types)}
    IN IF hits = {} THEN <<>>
       ELSE <<received[CHOOSE i \in hits : \A j \in hits : i <= j]>>

\* C38: wait_for_event returns the first event received after it subscribed whose
\* review_id equals the requested one (when given) and whose snake_case type name
\* is one of the requested event_types (when given), for each of the eleven event
\* types; events that do not match are skipped and the wait goes on.
C38_FirstMatch ==
    pure.fn = "wait_for_event" =>
        pure.result = FirstWanted(pure.received, pure.review_id, pure.event_types)

\* ---- C39: every call subscribes anew ----
\* The call answers with an event in this step.
ReturnsEvent == wait.pc = "recv" /\ wait'.pc = "done" /\ wait'.reply = "event"

\* C39: each wait_for_event call subscribes when it starts, so the event it
\* returns was sent while the call was in progress, and an event sent while no
\* call is in progress is kept for no later call.
C39_Step ==
    /\ ReturnsEvent => wait.since <= wait.next /\ wait.next < mcp_tx
    /\ (wait.pc = "idle" /\ wait'.pc = "recv") \/ (wait.pc = "done" /\ wait'.pc = "recv")
          => wait'.next = mcp_tx /\ wait'.since = mcp_tx
    /\ wait.pc # "recv" => mcp_tx' = mcp_tx

C39_SubscribesAnew == [][C39_Step]_vars

\* A later call, made after events were sent to an earlier one, returned the first
\* event sent after it subscribed.
C39_Witness ==
    /\ wait.pc = "done"
    /\ wait.reply = "event"
    /\ wait.since >= 1
    /\ wait.next = wait.since + 1

\* ---- C40: the reconnecting client ----
BackoffInRange ==
    /\ InitialBackoff <= ws_client.backoff /\ ws_client.backoff <= max_backoff
    /\ ws_client.elapsed <= ws_client.backoff
    /\ ws_client.pc = "connected" => ws_client.backoff = InitialBackoff

C40_Step ==
    /\ (ws_client.pc \in {"connecting", "connected"} /\ ws_client'.pc # ws_client.pc)
          => ws_client'.pc \in {"connected", "sleeping"}
    /\ (ws_client.pc = "sleeping" /\ ws_client'.pc # "sleeping")
          => /\ ws_client'.pc = "connecting"
             /\ ws_client.elapsed = ws_client.backoff
             /\ ws_client'.backoff = IF 2 * ws_client.backoff > 30 THEN 30
                                     ELSE 2 * ws_client.backoff
    /\ ws_client'.pc = "sleeping" => ws_client'.backoff = ws_client.backoff

\* C40: the task never gives up: every failed attempt and every disconnect is
\* followed by a sleep and a new attempt; the sleep starts at 1 s, doubles after
\* each attempt, never exceeds 30 s and is 1 s again after a successful
\* connection; when the server is reachable and stays so, the client is
\* connected again.
C40_Reconnects ==
    /\ []BackoffInRange
    /\ [][C40_Step]_vars
    /\ (ws_client.pc = "sleeping") ~> (ws_client.pc = "connecting")
    /\ []([]ws_client.up => <>(ws_client.pc = "connected"))

\* The sixth sleep in a row, at the cap, has run out while the server is down.
C40_Witness ==
    /\ ws_client.pc = "sleeping"
    /\ ws_client.backoff = max_backoff
    /\ ws_client.elapsed = max_backoff
    /\ ~ws_client.up

====
